---- MODULE Spec2Model ----
(***************************************************************************)
(* Debate orchestration and citation-verification pipeline of              *)
(* game-theoretic-paper-gen: the citation moat (moat_engine.py), the      *)
(* round scorer (scoring.py), the voting engine (voting.py), the adaptive  *)
(* debate engine (adaptive_debate.py) and the consensus generator          *)
(* (consensus.py).                                                         *)
(*                                                                         *)
(* Texts are abstracted to the set of lower-cased marker tokens they       *)
(* contain; scores are integers: sub-scores in percent (0..100), totals    *)
(* and weighted averages in hundredths of a point (0..10000).              *)
(***************************************************************************)
EXTENDS Integers, Sequences, FiniteSets, TLC

VARIABLES
    \* ---- citation moat (CitationMoatEngine) ----
    moat_cfg,        \* [strict_mode, proponent, reviewer]: constructor arguments
    moat_pc,         \* "idle" | "verifying" | "done": position inside verify_text
    moat_todo,       \* citations extracted and not yet verified
    moat_verifs,     \* verifications built so far (list of CitationVerification)
    moat_report,     \* the MoatReport returned by the last verify_text, or NoReport
    moat_text,       \* the text handed to verify_text
    moat_calls,      \* what became of the two agents' verify_citation calls for
                     \* the citation verified last
    \* ---- debate engine (AdaptiveDebateEngine) ----
    cfg,             \* max_rounds, quality_threshold, convergence_rounds,
                     \* and the voting engine's pass_threshold and max_retries
    status,          \* self.status
    rounds,          \* self.rounds
    pc,              \* position of the run_debate call in flight, "idle" if none
    round_num,       \* locals of run_debate ...
    recent_scores,
    current_position,
    review,          \* the critique of the round in progress
    defense,         \* the defense of the round in progress
    re_evaluations,
    voting_result,
    votes,           \* number of voting_engine.vote calls made by this call
    outcome,         \* how the last call ended: "none" | "returned" | "raised"
    result,          \* the DebateResult it returned, or NoResult
    suspended,       \* locals of a second run_debate call on the same engine
                     \* while it is not the one running, or NoCall
    \* ---- consensus generator (ConsensusGenerator.generate) ----
    cons_debate,     \* the debate_result argument
    cons_vote,       \* the voting_result argument (NoVote for None)
    consensus,       \* the Consensus returned, or NoConsensus
    \* ---- web validator (WebValidator.validate) ----
    val_citation,    \* which of the doi and url arguments are given
    val_net,         \* what the network answers to each strategy's request
    val_run,         \* how the validate call ended, or NoRun
    \* ---- web validator (WebValidator.batch_validate) ----
    batch_citations, \* the citations argument: one lookup per entry
    batch_pc,        \* "idle" | "gathering" | "returned"
    batch_tasks,     \* per input index: the result of its lookup, or Pending
    batch_completed, \* the indices in the order their lookups completed
    batch_results,   \* the list batch_validate returned, or NoResults
    \* ---- citation extractor (CitationExtractor.extract_all) ----
    ex_matches,      \* the pattern matches found in the text, in scan order
    ex_citations,    \* the list extract_all returned, or NoCitations
    \* ---- scoring system and voting engine called on their own ----
    score_args,      \* the arguments of score_round
    scored,          \* the RoundScore it returned, or NoScore
    vote_args,       \* the position voted on and the engine's pass_threshold
    criterion_votes, \* the CriterionVotes of the vote, or NoVotes
    voted,           \* the VotingResult the vote returned, or NoVote
    \* ---- one scripted debate run twice, on two sets of citations ----
    scenario,        \* the engine's settings and the agents' canned responses
    consensus_pair   \* the Consensus of each of the two runs, or NoPair

moat_vars == <<moat_cfg, moat_pc, moat_todo, moat_verifs, moat_report,
               moat_text, moat_calls>>

debate_vars == <<cfg, status, rounds, pc, round_num, recent_scores,
                 current_position, review, defense, re_evaluations,
                 voting_result, votes, outcome, result, suspended>>

cons_vars == <<cons_debate, cons_vote, consensus>>

validator_vars == <<val_citation, val_net, val_run>>

batch_vars == <<batch_citations, batch_pc, batch_tasks, batch_completed,
                batch_results>>

extractor_vars == <<ex_matches, ex_citations>>

scorer_vars == <<score_args, scored, vote_args, criterion_votes, voted>>

scenario_vars == <<scenario, consensus_pair>>

\* The components that are also checked on their own
unit_vars == <<validator_vars, batch_vars, extractor_vars, scorer_vars,
               scenario_vars>>

vars == <<moat_cfg, moat_pc, moat_todo, moat_verifs, moat_report,
          moat_text, moat_calls,
          cfg, status, rounds, pc, round_num, recent_scores,
          current_position, review, defense, re_evaluations, voting_result,
          votes, outcome, result, suspended, cons_debate, cons_vote,
          consensus, unit_vars>>

----------------------------------------------------------------------------
(* Bounds *)

MaxCitations == 2        \* a text holds 0..MaxCitations citations
MaxRounds == 3          \* max_rounds ranges over 1..MaxRounds
MaxConvergence == 3     \* convergence_rounds ranges over 1..MaxConvergence
MaxRetries == 3         \* the voting engine's max_retries ranges over 1..MaxRetries
MaxBatch == 3           \* batch_validate is handed 0..MaxBatch citations
MaxMatches == 3         \* the patterns find 0..MaxMatches matches in a text

----------------------------------------------------------------------------
(* Text abstraction: substring tests on lower-cased text *)

\* <<m, t>>: marker m occurs inside token t, so `m in text` is true whenever
\* the text contains t.
SubstringOf ==
    { <<"verified", "unverified">>, <<"valid", "invalid">>,
      <<"accurate", "inaccurate">>, <<"correct", "incorrect">>,
      <<"first", "first,">>, <<"second", "second,">>,
      <<"finally", "finally,">>, <<"agree", "disagree">> }

\* Python's `marker in text_lower`
Contains(tokens, marker) ==
    \/ marker \in tokens
    \/ \E t \in tokens : <<marker, t>> \in SubstringOf

\* sum(1 for m in markers if m in text_lower)
MarkerCount(tokens, markers) ==
    Cardinality({ m \in markers : Contains(tokens, m) })

Min(a, b) == IF a <= b THEN a ELSE b
Max(a, b) == IF a >= b THEN a ELSE b

----------------------------------------------------------------------------
(* Citation moat: moat_engine.py *)

ValidationStatus == {"verified", "partial_match", "not_found", "error", "pending"}

MoatDecision == {"keep", "modify", "delete", "flag"}

\* What an agent's verify_citation call does: it raises, or it answers with a
\* text holding one of the verdict words the prompt asks for.
AgentReplies == {"verified", "unverified", "uncertain", "suspicious", "raise"}

NoReport == [none |-> TRUE]

\* moat_engine.py _agent_verify: affirmative when the lower-cased answer
\* contains "verified", "valid" or "confirmed"; on an exception, the web result.
agent_verify(reply, web_status) ==
    IF reply = "raise"
    THEN web_status = "verified"
    ELSE \/ Contains({reply}, "verified")
         \/ Contains({reply}, "valid")
         \/ Contains({reply}, "confirmed")

\* _make_decision without the strict-mode branch: what cannot be verified is
\* flagged
make_decision_never_deletes(web_status, agent_a, agent_b, strict_mode) ==
    IF agent_a /\ agent_b /\ web_status = "verified" THEN "keep"
    ELSE IF web_status = "partial_match"
    THEN (IF agent_a \/ agent_b THEN "modify" ELSE "flag")
    ELSE "flag"

\* _make_decision with the KEEP branch forgetting the web status
make_decision_keep_unchecked(web_status, agent_a, agent_b, strict_mode) ==
    IF agent_a /\ agent_b THEN "keep"
    ELSE IF web_status = "partial_match"
    THEN (IF agent_a \/ agent_b THEN "modify" ELSE "flag")
    ELSE IF web_status = "verified" THEN "flag"
    ELSE IF strict_mode THEN "delete" ELSE "flag"

\* moat_engine.py _make_decision
make_decision(web_status, agent_a, agent_b, strict_mode) ==
    IF agent_a /\ agent_b /\ web_status = "verified" THEN "keep"
    ELSE IF web_status = "partial_match"
    THEN (IF agent_a \/ agent_b THEN "modify" ELSE "flag")
    ELSE IF web_status = "verified"
              /\ ( \/ (agent_a /\ ~agent_b)
                   \/ (agent_b /\ ~agent_a)
                   \/ (~agent_a /\ ~agent_b) )
    THEN "flag"
    ELSE IF strict_mode THEN "delete" ELSE "flag"

\* _calculate_confidence giving a partial match the full web contribution
calculate_confidence_partial_as_verified(web_status, agent_a, agent_b) ==
    (IF web_status \in {"verified", "partial_match"} THEN 40 ELSE 0)
    + (IF agent_a THEN 30 ELSE 0)
    + (IF agent_b THEN 30 ELSE 0)

\* moat_engine.py _calculate_confidence
calculate_confidence(web_status, agent_a, agent_b) ==
    (IF web_status = "verified" THEN 40
     ELSE IF web_status = "partial_match" THEN 20 ELSE 0)
    + (IF agent_a THEN 30 ELSE 0)
    + (IF agent_b THEN 30 ELSE 0)

\* _verify_single_citation leaving an absent agent's verdict at its default
\* (False)
verify_single_citation_absent_is_false(mcfg, web_status, reply_a, reply_b) ==
    LET a == IF mcfg.proponent THEN agent_verify(reply_a, web_status)
             ELSE FALSE
        b == IF mcfg.reviewer THEN agent_verify(reply_b, web_status)
             ELSE FALSE
    IN  [ web_status         |-> web_status,
          agent_a_verified   |-> a,
          agent_b_verified   |-> b,
          alternative_source |-> <<>>,
          decision           |-> make_decision(web_status, a, b, mcfg.strict_mode),
          confidence         |-> calculate_confidence(web_status, a, b) ]

\* moat_engine.py _verify_single_citation: the web result and the two agents'
\* answers are what the collaborators return for this citation.
\* alternative_source keeps its default None (here the empty text): nothing
\* in the repository assigns it.
verify_single_citation(mcfg, web_status, reply_a, reply_b) ==
    LET a == IF mcfg.proponent THEN agent_verify(reply_a, web_status)
             ELSE web_status = "verified"
        b == IF mcfg.reviewer THEN agent_verify(reply_b, web_status)
             ELSE web_status = "verified"
    IN  [ web_status         |-> web_status,
          agent_a_verified   |-> a,
          agent_b_verified   |-> b,
          alternative_source |-> <<>>,
          decision           |-> make_decision(web_status, a, b, mcfg.strict_mode),
          confidence         |-> calculate_confidence(web_status, a, b) ]

\* What became of an agent's verify_citation call inside
\* _verify_single_citation (lines 175-199)
agent_call(configured, reply) ==
    IF ~configured THEN "not_called"
    ELSE IF reply = "raise" THEN "raised" ELSE "answered"

NoCalls == [a |-> "not_called", b |-> "not_called"]

CountDecision(verifs, d) ==
    Cardinality({ i \in 1..Len(verifs) : verifs[i].decision = d })

\* moat_engine.py verify_text, steps 3: the MoatReport counters
MoatReport(verifs) ==
    [ total_citations |-> Len(verifs),
      verified_count  |-> CountDecision(verifs, "keep"),
      modified_count  |-> CountDecision(verifs, "modify"),
      deleted_count   |-> CountDecision(verifs, "delete"),
      flagged_count   |-> CountDecision(verifs, "flag"),
      verifications   |-> verifs ]

\* A text is a sequence of characters: 0 is a character outside any
\* citation, i > 0 a character of the i-th citation; negative numbers are the
\* characters of the markers _generate_clean_text writes.
RemovedMarker == <<-1, -1, -1>>        \* "[CITATION REMOVED]"
NeedsReviewOpen == <<-2, -2>>          \* "[NEEDS REVIEW: "
NeedsReviewClose == <<-3>>             \* "]"

\* The characters of the i-th citation: two for odd i, one for even i
Span(i) == IF i % 2 = 1 THEN <<i, i>> ELSE <<i>>

\* n citations in order, each preceded and followed by the text `gap`
RECURSIVE Layout(_, _)
Layout(n, gap) ==
    IF n = 0 THEN gap ELSE Layout(n - 1, gap) \o Span(n) \o gap

\* The texts with n citations: citations set apart by other text, and
\* citations that touch each other and the ends of the text
TextsWith(n) == { Layout(n, <<0>>), Layout(n, <<>>) }

\* extractor.py extract_all: the citations of a text sorted by position, each
\* with its (start, end) offsets; _deduplicate leaves no two spans that
\* overlap
extract_all(text) ==
    LET ids == { text[i] : i \in 1..Len(text) } \ {0}
        first(k) == CHOOSE i \in 1..Len(text) :
                      text[i] = k /\ \A j \in 1..(i - 1) : text[j] # k
        last(k)  == CHOOSE i \in 1..Len(text) :
                      text[i] = k /\ \A j \in (i + 1)..Len(text) : text[j] # k
    IN  [ k \in 1..Cardinality(ids) |-> [ position |-> <<first(k) - 1, last(k)>> ] ]

\* Python's s[a:b] for 0 <= a
Slice(s, a, b) == SubSeq(s, a + 1, Min(b, Len(s)))

\* The loop of _generate_clean_text (lines 301-312) over the verifications
\* not yet processed, in the order sorted() gives: by start offset,
\* descending when reverse is set.  verifs[i] is the verification of
\* citations[i] (its original_citation).
RECURSIVE rewrite_spans(_, _, _, _, _)
rewrite_spans(clean_text, citations, verifs, todo, reverse) ==
    IF todo = {} THEN clean_text
    ELSE LET k == CHOOSE i \in todo : \A j \in todo :
                    IF reverse
                    THEN citations[j].position[1] <= citations[i].position[1]
                    ELSE citations[i].position[1] <= citations[j].position[1]
             start == citations[k].position[1]
             end == citations[k].position[2]
             v == verifs[k]
             edited ==
               IF v.decision = "delete"
               THEN Slice(clean_text, 0, start) \o RemovedMarker
                    \o Slice(clean_text, end, Len(clean_text))
               ELSE IF v.decision = "modify" /\ v.alternative_source # <<>>
               THEN Slice(clean_text, 0, start) \o v.alternative_source
                    \o Slice(clean_text, end, Len(clean_text))
               ELSE IF v.decision = "flag"
               THEN Slice(clean_text, 0, start) \o NeedsReviewOpen
                    \o Slice(clean_text, start, end) \o NeedsReviewClose
                    \o Slice(clean_text, end, Len(clean_text))
               ELSE clean_text
         IN  rewrite_spans(edited, citations, verifs, todo \ {k}, reverse)

\* _generate_clean_text rewriting from the first citation to the last
generate_clean_text_first_to_last(original_text, citations, verifs) ==
    rewrite_spans(original_text, citations, verifs, 1..Len(verifs), FALSE)

\* moat_engine.py _generate_clean_text
generate_clean_text(original_text, citations, verifs) ==
    rewrite_spans(original_text, citations, verifs, 1..Len(verifs), TRUE)

\* The MoatReport verify_text returns for a text: the counters and the clean
\* text (lines 103-130)
MoatReportWithText(text, verifs) ==
    LET report == MoatReport(verifs)
    IN  [ total_citations |-> Len(extract_all(text)),      \* lines 103-106
          verified_count  |-> report.verified_count,
          modified_count  |-> report.modified_count,
          deleted_count   |-> report.deleted_count,
          flagged_count   |-> report.flagged_count,
          verifications   |-> report.verifications,
          clean_text      |-> IF verifs = <<>> THEN text
                              ELSE generate_clean_text(text, extract_all(text),
                                                       verifs) ]

----------------------------------------------------------------------------
(* Texts produced by the agents *)

\* A text is known by the marker tokens it contains, the number of citation
\* marks ("[citation:", "doi:", "http") in it, its word-count class and
\* whether it is longer than 5000 characters.
Text(tokens, cite_marks, words, over_5000) ==
    [tokens |-> tokens, cite_marks |-> cite_marks, words |-> words,
     over_5000 |-> over_5000]

\* Answers of the Proponent (initial position, defense, revision)
ProponentTexts ==
    [ plain  |-> Text({"because", "therefore", "limitation", "study shows",
                       "disagree"}, 0, "medium", FALSE),
      strong |-> Text({"therefore", "because", "thus", "hence", "consequently",
                       "follows that", "methodology", "systematic",
                       "peer-reviewed", "analysis", "replicated", "controlled",
                       "limitation", "first,", "second,", "finally,",
                       "in summary", "in conclusion", "to summarize",
                       "study shows", "research indicates",
                       "evidence suggests", "data demonstrates",
                       "[claim:", "[citation:", "[verified]", "concede"},
                      5, "medium", FALSE) ]

\* Critiques of the Reviewer
ReviewerTexts ==
    [ harsh     |-> Text({"inaccurate", "fallacy"}, 0, "medium", FALSE),
      approving |-> Text({"accurate"}, 1, "medium", FALSE) ]

ProponentIds == DOMAIN ProponentTexts
ReviewerIds == DOMAIN ReviewerTexts

----------------------------------------------------------------------------
(* Scoring system: scoring.py.  Sub-scores are in percent. *)

\* min(1.0, max(0.0, score)) left out
Clamp_left_out(lo, hi, x) == x

\* min(1.0, max(0.0, score)), and min(100.0, max(0.0, base_score))
Clamp(lo, hi, x) == Min(hi, Max(lo, x))

\* verification_rate counting an empty report as 0%
verification_rate_empty_is_zero(report) ==
    IF report.total_citations = 0 THEN 0
    ELSE (report.verified_count * 100) \div report.total_citations

\* MoatReport.verification_rate, in whole percent (the integer part of
\* verified_count / total_citations * 100)
verification_rate(report) ==
    IF report.total_citations = 0 THEN 100
    ELSE (report.verified_count * 100) \div report.total_citations

\* scoring.py _score_accuracy (0.5 when no report is passed)
score_accuracy(report, reviewer) ==
    LET base == IF report = NoReport THEN 50 ELSE verification_rate(report)
        adj  == IF Contains(reviewer.tokens, "inaccurate")
                   \/ Contains(reviewer.tokens, "incorrect")
                THEN (base * 7) \div 10
                ELSE IF Contains(reviewer.tokens, "accurate")
                        \/ Contains(reviewer.tokens, "correct")
                THEN Min(100, (base * 12) \div 10)
                ELSE base
    IN  Clamp(0, 100, adj)

\* scoring.py _score_evidence
score_evidence(proponent, report) ==
    LET base == IF report = NoReport THEN 50
                ELSE IF report.total_citations > 0
                THEN 30 + (report.verified_count * 70) \div report.total_citations
                ELSE 20
        marker_count == MarkerCount(proponent.tokens,
            {"study shows", "research indicates", "evidence suggests",
             "data demonstrates"})
    IN  Clamp(0, 100, base + marker_count * 5)

\* scoring.py _score_logic
score_logic(proponent, reviewer) ==
    LET logic_count == MarkerCount(proponent.tokens,
            {"therefore", "because", "thus", "consequently", "hence",
             "follows that"})
        fallacy_count == MarkerCount(reviewer.tokens,
            {"fallacy", "non sequitur", "circular", "strawman", "ad hominem"})
    IN  Clamp(0, 100, 60 + logic_count * 5 - fallacy_count * 15)

\* scoring.py _score_methodology
score_methodology(proponent) ==
    LET marker_count == MarkerCount(proponent.tokens,
            {"methodology", "systematic", "peer-reviewed", "replicated",
             "controlled"})
        limits == IF Contains(proponent.tokens, "limitation")
                     \/ Contains(proponent.tokens, "caveat")
                  THEN 10 ELSE 0
    IN  Clamp(0, 100, 60 + marker_count * 8 + limits)

\* scoring.py _score_clarity
score_clarity(proponent) ==
    LET length_penalty == IF proponent.words = "long" THEN 10
                          ELSE IF proponent.words = "short" THEN 10 ELSE 0
        structure_count == MarkerCount(proponent.tokens,
            {"first", "second", "finally", "in conclusion", "to summarize"})
    IN  Clamp(0, 100, 70 - length_penalty + structure_count * 5)

\* scoring.py score_round
score_round(proponent, reviewer, report) ==
    [ accuracy    |-> score_accuracy(report, reviewer),
      evidence    |-> score_evidence(proponent, report),
      logic       |-> score_logic(proponent, reviewer),
      methodology |-> score_methodology(proponent),
      clarity     |-> score_clarity(proponent) ]

\* RoundScore.WEIGHTS with clarity at 25%
WEIGHTS_clarity_25 ==
    [ accuracy |-> 25, evidence |-> 25, logic |-> 20, methodology |-> 15,
      clarity |-> 25 ]

\* RoundScore.WEIGHTS, in percent
WEIGHTS ==
    [ accuracy |-> 25, evidence |-> 25, logic |-> 20, methodology |-> 15,
      clarity |-> 15 ]

\* RoundScore.total_score, in hundredths of a point
total_score(score) ==
    score.accuracy * WEIGHTS.accuracy + score.evidence * WEIGHTS.evidence
    + score.logic * WEIGHTS.logic + score.methodology * WEIGHTS.methodology
    + score.clarity * WEIGHTS.clarity

----------------------------------------------------------------------------
(* Voting engine: voting.py.  Criterion scores are in points (0..100), the  *)
(* weighted average and the thresholds in hundredths of a point.           *)

\* voting.py _analyze_criterion
analyze_criterion(criterion, position) ==
    LET t == position.tokens
        base ==
          CASE criterion = "accuracy" ->
                 60 + (IF Contains(t, "[verified]") \/ Contains(t, "confirmed")
                       THEN 20 ELSE 0)
                    - (IF Contains(t, "citation removed") THEN 15 ELSE 0)
                    + (IF Contains(t, "[claim:") /\ Contains(t, "[citation:")
                       THEN 10 ELSE 0)
            [] criterion = "evidence" ->
                 60 + Min(position.cite_marks * 5, 25)
            [] criterion = "logic" ->
                 60 + Min(MarkerCount(t, {"therefore", "because", "thus",
                                          "hence", "consequently"}) * 5, 20)
                    - (IF Contains(t, "fallacy") \/ Contains(t, "invalid")
                       THEN 10 ELSE 0)
            [] criterion = "methodology" ->
                 60 + Min(MarkerCount(t, {"systematic", "peer-reviewed",
                                          "methodology", "analysis"}) * 5, 20)
            [] criterion = "clarity" ->
                 LET marker_count == MarkerCount(t, {"first,", "second,",
                                                     "finally,", "in summary"})
                 IN  60 + Min(marker_count * 5, 15)
                        - (IF position.over_5000 /\ marker_count < 2
                           THEN 10 ELSE 0)
    IN  Clamp(0, 100, base)

CRITERIA == {"accuracy", "evidence", "logic", "methodology", "clarity"}

\* The weights with the clarity vote not counted: they sum to 85
CRITERIA_WEIGHTS_without_clarity ==
    [ accuracy |-> 25, evidence |-> 25, logic |-> 20, methodology |-> 15,
      clarity |-> 0 ]

\* VotingEngine.CRITERIA: the weight of each criterion, in percent
CRITERIA_WEIGHTS ==
    [ accuracy |-> 25, evidence |-> 25, logic |-> 20, methodology |-> 15,
      clarity |-> 15 ]

\* vote passing only above the threshold: weighted_avg > self.pass_threshold
vote_strictly_above(position, pass_threshold) ==
    LET criterion_scores == [c \in CRITERIA |-> analyze_criterion(c, position)]
        weighted_avg ==
            criterion_scores["accuracy"] * CRITERIA_WEIGHTS.accuracy
            + criterion_scores["evidence"] * CRITERIA_WEIGHTS.evidence
            + criterion_scores["logic"] * CRITERIA_WEIGHTS.logic
            + criterion_scores["methodology"] * CRITERIA_WEIGHTS.methodology
            + criterion_scores["clarity"] * CRITERIA_WEIGHTS.clarity
    IN  [ passed           |-> weighted_avg > pass_threshold,
          weighted_average |-> weighted_avg,
          criterion_scores |-> criterion_scores ]

\* voting.py vote: the VotingResult
vote(position, pass_threshold) ==
    LET criterion_scores == [c \in CRITERIA |-> analyze_criterion(c, position)]
        weighted_avg ==
            criterion_scores["accuracy"] * CRITERIA_WEIGHTS.accuracy
            + criterion_scores["evidence"] * CRITERIA_WEIGHTS.evidence
            + criterion_scores["logic"] * CRITERIA_WEIGHTS.logic
            + criterion_scores["methodology"] * CRITERIA_WEIGHTS.methodology
            + criterion_scores["clarity"] * CRITERIA_WEIGHTS.clarity
    IN  [ passed           |-> weighted_avg >= pass_threshold,
          weighted_average |-> weighted_avg,
          criterion_scores |-> criterion_scores ]

\* adaptive_debate.py _request_revision, lines 247-250: the criteria whose
\* score (in points) is below the pass threshold (in hundredths of a point)
failed_criteria(vr, pass_threshold) ==
    { c \in CRITERIA : 100 * vr.criterion_scores[c] < pass_threshold }

----------------------------------------------------------------------------
(* Citation moat as a process: one verify_text call at a time *)

\* No debate engine is part of a stand-alone moat: its variables stay at
\* their construction values.
DebateIdle ==
    /\ cfg = [max_rounds |-> 1, quality_threshold |-> 8500,
              convergence_rounds |-> 3, pass_threshold |-> 7500,
              max_retries |-> 3]
    /\ status = "not_started"
    /\ rounds = <<>>
    /\ pc = "idle"
    /\ round_num = 0
    /\ recent_scores = <<>>
    /\ current_position = "none"
    /\ review = "none"
    /\ defense = "none"
    /\ re_evaluations = 0
    /\ voting_result = [none |-> TRUE]
    /\ votes = 0
    /\ outcome = "none"
    /\ result = [none |-> TRUE]
    /\ suspended = [none |-> TRUE]

\* No validate call is in progress
ValidatorIdle ==
    /\ val_citation = [none |-> TRUE]
    /\ val_net = [none |-> TRUE]
    /\ val_run = [none |-> TRUE]

\* No batch_validate call is in progress
BatchIdle ==
    /\ batch_citations = <<>>
    /\ batch_pc = "idle"
    /\ batch_tasks = <<>>
    /\ batch_completed = <<>>
    /\ batch_results = [none |-> TRUE]

\* No extraction is in progress
ExtractorIdle ==
    /\ ex_matches = <<>>
    /\ ex_citations = [none |-> TRUE]

\* No scoring and no vote of its own is in progress
ScorerIdle ==
    /\ score_args = [none |-> TRUE]
    /\ scored = [none |-> TRUE]
    /\ vote_args = [none |-> TRUE]
    /\ criterion_votes = [none |-> TRUE]
    /\ voted = [none |-> TRUE]

\* No scripted debate is being run
ScenarioIdle ==
    /\ scenario = [none |-> TRUE]
    /\ consensus_pair = [none |-> TRUE]

UnitsIdle ==
    ValidatorIdle /\ BatchIdle /\ ExtractorIdle /\ ScorerIdle /\ ScenarioIdle

\* No consensus generation is in progress
ConsensusIdle ==
    /\ cons_debate = [none |-> TRUE]
    /\ cons_vote = [none |-> TRUE]
    /\ consensus = [none |-> TRUE]

\* CitationMoatEngine.__init__
MoatInit ==
    /\ DebateIdle
    /\ ConsensusIdle
    /\ UnitsIdle
    /\ moat_cfg \in [strict_mode : BOOLEAN, proponent : BOOLEAN, reviewer : BOOLEAN]
    /\ moat_pc = "idle"
    /\ moat_todo = 0
    /\ moat_verifs = <<>>
    /\ moat_report = NoReport
    /\ moat_text = <<>>
    /\ moat_calls = NoCalls

\* verify_text, step 1: extract; an empty extraction returns at once
MoatVerifyText ==
    /\ moat_pc \in {"idle", "done"}
    /\ \E n \in 0..MaxCitations : \E text \in TextsWith(n) :
         LET citations == extract_all(text)
         IN  /\ moat_text' = text
             /\ moat_todo' = Len(citations)
             /\ moat_verifs' = <<>>
             /\ IF Len(citations) = 0
                THEN /\ moat_report' = MoatReportWithText(text, <<>>)
                     /\ moat_pc' = "done"
                ELSE /\ moat_report' = NoReport
                     /\ moat_pc' = "verifying"
    /\ moat_calls' = NoCalls
    /\ UNCHANGED <<moat_cfg, debate_vars, cons_vars, unit_vars>>

\* _verify_citations losing the citation whose agent call raised
MoatVerifyNext_raise_skips ==
    /\ moat_pc = "verifying"
    /\ moat_todo > 0
    /\ \E web \in ValidationStatus, ra \in AgentReplies, rb \in AgentReplies :
         /\ moat_verifs' =
              IF "raised" \in { agent_call(moat_cfg.proponent, ra),
                                agent_call(moat_cfg.reviewer, rb) }
              THEN moat_verifs
              ELSE Append(moat_verifs,
                          verify_single_citation(moat_cfg, web, ra, rb))
         /\ moat_calls' = [ a |-> agent_call(moat_cfg.proponent, ra),
                            b |-> agent_call(moat_cfg.reviewer, rb) ]
    /\ moat_todo' = moat_todo - 1
    /\ UNCHANGED <<moat_cfg, moat_pc, moat_report, moat_text, debate_vars,
                   cons_vars, unit_vars>>

\* _verify_citations: one iteration of the loop over the citations
MoatVerifyNext ==
    /\ moat_pc = "verifying"
    /\ moat_todo > 0
    /\ \E web \in ValidationStatus, ra \in AgentReplies, rb \in AgentReplies :
         /\ moat_verifs' = Append(moat_verifs,
                                  verify_single_citation(moat_cfg, web, ra, rb))
         /\ moat_calls' = [ a |-> agent_call(moat_cfg.proponent, ra),
                            b |-> agent_call(moat_cfg.reviewer, rb) ]
    /\ moat_todo' = moat_todo - 1
    /\ UNCHANGED <<moat_cfg, moat_pc, moat_report, moat_text, debate_vars,
                   cons_vars, unit_vars>>

\* verify_text, steps 3-4: count the decisions and return the report
MoatFinish ==
    /\ moat_pc = "verifying"
    /\ moat_todo = 0
    /\ moat_report' = MoatReportWithText(moat_text, moat_verifs)
    /\ moat_pc' = "done"
    /\ UNCHANGED <<moat_cfg, moat_todo, moat_verifs, moat_text, moat_calls,
                   debate_vars, cons_vars, unit_vars>>

MoatNext == MoatVerifyText \/ MoatVerifyNext \/ MoatFinish

SpecMoat == MoatInit /\ [][MoatNext]_vars

----------------------------------------------------------------------------
(* Adaptive debate engine: adaptive_debate.py *)

DebateStatus == {"not_started", "in_progress", "converged",
                 "max_rounds_reached", "consensus_reached", "deadlock"}

QualityThresholds == {8500}
PassThresholds == {7500}

NoResult == [none |-> TRUE]
NoVote == [none |-> TRUE]
NoCall == [none |-> TRUE]

\* What the moat's collaborators say about the citations of one round's
\* combined text: per citation the web status and the two agents' answers.
Cite(web, reply_a, reply_b) ==
    [web_status |-> web, reply_a |-> reply_a, reply_b |-> reply_b]

RoundCitations ==
    { << Cite("verified", "verified", "verified"),
         Cite("verified", "verified", "verified") >>,
      << Cite("verified", "verified", "verified"),
         Cite("not_found", "unverified", "suspicious") >> }

\* moat_engine.py verify_text, as called by the round loop
verify_text(mcfg, cites) ==
    MoatReport([ i \in 1..Len(cites) |->
                 verify_single_citation(mcfg, cites[i].web_status,
                                        cites[i].reply_a, cites[i].reply_b) ])

RECURSIVE SumSeq(_)
SumSeq(s) == IF s = <<>> THEN 0 ELSE Head(s) + SumSeq(Tail(s))

\* sum((s - avg) ** 2 for s in recent_scores) with avg = total / n, times n*n
RECURSIVE SumSqDev(_, _, _)
SumSqDev(s, n, total) ==
    IF s = <<>> THEN 0
    ELSE (n * Head(s) - total) * (n * Head(s) - total)
         + SumSqDev(Tail(s), n, total)

\* _check_convergence without the test of lines 227-228
check_convergence_any_window(scores, convergence_rounds) ==
    LET n == Len(scores)
    IN  SumSqDev(scores, n, SumSeq(scores)) < 25 * 10000 * n * n * n

\* _check_convergence taking the 5-point bound for the variance bound
check_convergence_stddev_bound(scores, convergence_rounds) ==
    IF Len(scores) < convergence_rounds THEN FALSE
    ELSE LET n == Len(scores)
         IN  SumSqDev(scores, n, SumSeq(scores)) < 5 * 10000 * n * n * n

\* adaptive_debate.py _check_convergence: variance < 25.0, scores being in
\* hundredths of a point (both sides multiplied by n^3 * 100^2)
check_convergence(scores, convergence_rounds) ==
    IF Len(scores) < convergence_rounds THEN FALSE
    ELSE LET n == Len(scores)
         IN  SumSqDev(scores, n, SumSeq(scores)) < 25 * 10000 * n * n * n

\* adaptive_debate.py:172-174: the sliding window
push_score(scores, s, convergence_rounds) ==
    LET appended == Append(scores, s)
    IN  IF Len(appended) > convergence_rounds THEN Tail(appended) ELSE appended

\* adaptive_debate.py:181-183: the quality-threshold test
quality_reached(s, scores, c) ==
    /\ s >= c.quality_threshold
    /\ Len(scores) >= c.convergence_rounds
    /\ \A i \in 1..Len(scores) : scores[i] >= c.quality_threshold

\* adaptive_debate.py:194: the bound of the re-evaluation loop
RetryCap == 3

\* adaptive_debate.py _extract_points: the numbers of those of the last three
\* rounds whose defense holds an agreement (resp. disagreement) marker
extract_points(rs) ==
    LET last3 == { i \in 1..Len(rs) : i > Len(rs) - 3 }
        toks(i) == ProponentTexts[rs[i].proponent_response].tokens
    IN  [ consensus |-> { rs[i].round_number : i \in
                          { j \in last3 : Contains(toks(j), "agree")
                                          \/ Contains(toks(j), "concede") } },
          disputed  |-> { rs[i].round_number : i \in
                          { j \in last3 : Contains(toks(j), "disagree")
                                          \/ Contains(toks(j), "dispute") } } ]

\* AdaptiveDebateEngine.__init__ (the moat it builds has both agents and the
\* default strict mode; the voting engine reads its settings from the
\* environment)
DebateInit ==
    /\ cfg \in [ max_rounds : 1..MaxRounds,
                 quality_threshold : QualityThresholds,
                 convergence_rounds : 1..MaxConvergence,
                 pass_threshold : PassThresholds,
                 max_retries : 1..MaxRetries ]
    /\ status = "not_started"
    /\ rounds = <<>>
    /\ pc = "idle"
    /\ round_num = 0
    /\ recent_scores = <<>>
    /\ current_position = "none"
    /\ review = "none"
    /\ defense = "none"
    /\ re_evaluations = 0
    /\ voting_result = NoVote
    /\ votes = 0
    /\ outcome = "none"
    /\ result = NoResult
    /\ suspended = NoCall
    /\ moat_cfg = [strict_mode |-> TRUE, proponent |-> TRUE, reviewer |-> TRUE]
    /\ moat_pc = "idle"
    /\ moat_todo = 0
    /\ moat_verifs = <<>>
    /\ moat_report = NoReport
    /\ moat_text = <<>>
    /\ moat_calls = NoCalls
    /\ ConsensusIdle
    /\ UnitsIdle

\* run_debate, lines 118-123: up to the request for the initial position
RunDebate ==
    /\ pc = "idle"
    /\ status' = "in_progress"
    /\ rounds' = <<>>
    /\ re_evaluations' = 0
    /\ pc' = "initial"
    /\ round_num' = 0
    /\ recent_scores' = <<>>
    /\ current_position' = "none"
    /\ review' = "none"
    /\ defense' = "none"
    /\ voting_result' = NoVote
    /\ votes' = 0
    /\ outcome' = "none"
    /\ result' = NoResult
    /\ UNCHANGED <<cfg, suspended, moat_vars, cons_vars, unit_vars>>

\* lines 123-131: the initial position arrives
InitialPosition ==
    /\ pc = "initial"
    /\ \E p \in ProponentIds : current_position' = p
    /\ round_num' = 0
    /\ recent_scores' = <<>>
    /\ pc' = "loop"
    /\ UNCHANGED <<cfg, status, rounds, review, defense, re_evaluations,
                   voting_result, votes, outcome, result, suspended, moat_vars,
                   cons_vars, unit_vars>>

\* The loop test off by one: while round_num <= self.max_rounds
StartRound_off_by_one ==
    /\ pc = "loop"
    /\ round_num <= cfg.max_rounds
    /\ round_num' = round_num + 1
    /\ pc' = "review"
    /\ UNCHANGED <<cfg, status, rounds, recent_scores, current_position, review,
                   defense, re_evaluations, voting_result, votes, outcome,
                   result, suspended, moat_vars, cons_vars, unit_vars>>

\* lines 133-139: the loop test passes, the Reviewer is asked for a critique
StartRound ==
    /\ pc = "loop"
    /\ round_num < cfg.max_rounds
    /\ round_num' = round_num + 1
    /\ pc' = "review"
    /\ UNCHANGED <<cfg, status, rounds, recent_scores, current_position,
                   review, defense, re_evaluations, voting_result, votes,
                   outcome, result, suspended, moat_vars, cons_vars, unit_vars>>

\* lines 137-145: the critique arrives, the Proponent is asked to respond
ReviewPosition ==
    /\ pc = "review"
    /\ \E r \in ReviewerIds : review' = r
    /\ pc' = "defend"
    /\ UNCHANGED <<defense, cfg, status, rounds, round_num, recent_scores,
                   current_position, re_evaluations, voting_result, votes,
                   outcome, result, suspended, moat_vars, cons_vars, unit_vars>>

\* lines 142-149: the defense arrives; the combined text goes to the moat.
\* (current_position takes the defense only at line 169.)
RespondToCritique ==
    /\ pc = "defend"
    /\ \E d \in ProponentIds : defense' = d
    /\ pc' = "moat"
    /\ UNCHANGED <<cfg, status, rounds, round_num, recent_scores,
                   current_position, review, re_evaluations,
                   voting_result, votes, outcome, result, suspended, moat_vars,
                   cons_vars, unit_vars>>

\* FinishRound without line 169: the position is not replaced by the defense
FinishRound_position_kept ==
    /\ pc = "moat"
    /\ \E cites \in RoundCitations :
         LET citation_report == verify_text(moat_cfg, cites)
             round_score == score_round(ProponentTexts[defense],
                                        ReviewerTexts[review], citation_report)
             total == total_score(round_score)
             window == push_score(recent_scores, total, cfg.convergence_rounds)
         IN  /\ rounds' = Append(rounds,
                   [ round_number       |-> round_num,
                     proponent_response |-> defense,
                     reviewer_response  |-> review,
                     round_score        |-> round_score,
                     citation_report    |-> citation_report ])
             /\ current_position' = current_position
             /\ recent_scores' = window
             /\ IF check_convergence(window, cfg.convergence_rounds)
                THEN /\ status' = "converged"
                     /\ pc' = "after_loop"
                ELSE IF quality_reached(total, window, cfg)
                THEN /\ status' = "consensus_reached"
                     /\ pc' = "after_loop"
                ELSE /\ status' = status
                     /\ pc' = "loop"
    /\ UNCHANGED <<cfg, round_num, review, defense, re_evaluations,
                   voting_result, votes, outcome, result, suspended, moat_vars,
                   cons_vars, unit_vars>>

\* lines 149-185: the moat report arrives; score, record, slide the window,
\* test convergence, then the quality threshold
FinishRound ==
    /\ pc = "moat"
    /\ \E cites \in RoundCitations :
         LET citation_report == verify_text(moat_cfg, cites)
             round_score == score_round(ProponentTexts[defense],
                                        ReviewerTexts[review], citation_report)
             total == total_score(round_score)
             window == push_score(recent_scores, total, cfg.convergence_rounds)
         IN  /\ rounds' = Append(rounds,
                   [ round_number       |-> round_num,
                     proponent_response |-> defense,
                     reviewer_response  |-> review,
                     round_score        |-> round_score,
                     citation_report    |-> citation_report ])
             /\ current_position' = defense
             /\ recent_scores' = window
             /\ IF check_convergence(window, cfg.convergence_rounds)
                THEN /\ status' = "converged"
                     /\ pc' = "after_loop"
                ELSE IF quality_reached(total, window, cfg)
                THEN /\ status' = "consensus_reached"
                     /\ pc' = "after_loop"
                ELSE /\ status' = status
                     /\ pc' = "loop"
    /\ UNCHANGED <<cfg, round_num, review, defense, re_evaluations,
                   voting_result, votes, outcome, result, suspended, moat_vars,
                   cons_vars, unit_vars>>

\* line 133: the loop test fails
ExhaustRounds ==
    /\ pc = "loop"
    /\ round_num >= cfg.max_rounds
    /\ pc' = "after_loop"
    /\ UNCHANGED <<cfg, status, rounds, round_num, recent_scores,
                   current_position, review, defense, re_evaluations,
                   voting_result, votes, outcome, result, suspended, moat_vars,
                   cons_vars, unit_vars>>

\* Line 187 without its test: the status is overwritten after every loop
RunVoting_status_overwritten ==
    /\ pc = "after_loop"
    /\ status' = "max_rounds_reached"
    /\ voting_result' = vote(ProponentTexts[current_position], cfg.pass_threshold)
    /\ votes' = votes + 1
    /\ pc' = "voted"
    /\ UNCHANGED <<cfg, rounds, round_num, recent_scores, current_position,
                   review, defense, re_evaluations, outcome, result,
                   suspended, moat_vars,
                   cons_vars, unit_vars>>

\* The first vote without the test of lines 187-188
RunVoting_status_not_settled ==
    /\ pc = "after_loop"
    /\ status' = status
    /\ voting_result' = vote(ProponentTexts[current_position], cfg.pass_threshold)
    /\ votes' = votes + 1
    /\ pc' = "voted"
    /\ UNCHANGED <<cfg, rounds, round_num, recent_scores, current_position,
                   review, defense, re_evaluations, outcome, result,
                   suspended, moat_vars, cons_vars, unit_vars>>

\* lines 187-191: settle the status, then the first vote
RunVoting ==
    /\ pc = "after_loop"
    /\ status' = IF status = "in_progress" THEN "max_rounds_reached" ELSE status
    /\ voting_result' = vote(ProponentTexts[current_position], cfg.pass_threshold)
    /\ votes' = votes + 1
    /\ pc' = "voted"
    /\ UNCHANGED <<cfg, rounds, round_num, recent_scores, current_position,
                   review, defense, re_evaluations, outcome, result,
                   suspended, moat_vars, cons_vars, unit_vars>>

\* lines 194-201 and _request_revision: the re-evaluation loop test passes
\* and a revision is requested
RequestRevision ==
    /\ pc = "voted"
    /\ ~voting_result.passed /\ re_evaluations < RetryCap
    /\ re_evaluations' = re_evaluations + 1
    /\ pc' = "revise"
    /\ UNCHANGED <<cfg, status, rounds, round_num, recent_scores,
                   current_position, review, defense, voting_result, votes,
                   outcome, result, suspended, moat_vars, cons_vars, unit_vars>>

\* The revision replaces the position but the re-vote is left out
Revise_without_revote ==
    /\ pc = "revise"
    /\ \E p \in ProponentIds : current_position' = p
    /\ pc' = "voted"
    /\ UNCHANGED <<cfg, status, rounds, round_num, recent_scores, review,
                   defense, re_evaluations, voting_result, votes, outcome,
                   result, suspended, moat_vars, cons_vars, unit_vars>>

\* lines 198-205: the revision arrives, replaces the position and is voted on
Revise ==
    /\ pc = "revise"
    /\ \E p \in ProponentIds :
         /\ current_position' = p
         /\ voting_result' = vote(ProponentTexts[p], cfg.pass_threshold)
    /\ votes' = votes + 1
    /\ pc' = "voted"
    /\ UNCHANGED <<cfg, status, rounds, round_num, recent_scores, review,
                   defense, re_evaluations, outcome, result, suspended,
                   moat_vars,
                   cons_vars, unit_vars>>

\* The re-evaluation loop left as soon as one revision has been voted on
RequestFinal_after_one_retry ==
    /\ pc = "voted"
    /\ ~(~voting_result.passed /\ re_evaluations < 1)
    /\ pc' = "final"
    /\ UNCHANGED <<cfg, status, rounds, round_num, recent_scores,
                   current_position, review, defense, re_evaluations,
                   voting_result, votes, outcome, result, suspended, moat_vars,
                   cons_vars, unit_vars>>

\* The re-evaluation loop left only on a passed vote: after the last
\* revision has failed the call goes nowhere
RequestFinal_only_when_passed ==
    /\ pc = "voted"
    /\ voting_result.passed
    /\ pc' = "final"
    /\ UNCHANGED <<cfg, status, rounds, round_num, recent_scores,
                   current_position, review, defense, re_evaluations,
                   voting_result, votes, outcome, result, suspended, moat_vars,
                   cons_vars, unit_vars>>

\* lines 194, 208: the re-evaluation loop ends, the final position is requested
RequestFinal ==
    /\ pc = "voted"
    /\ ~(~voting_result.passed /\ re_evaluations < RetryCap)
    /\ pc' = "final"
    /\ UNCHANGED <<cfg, status, rounds, round_num, recent_scores,
                   current_position, review, defense, re_evaluations,
                   voting_result, votes, outcome, result, suspended, moat_vars,
                   cons_vars, unit_vars>>

\* The DebateResult carrying the last round's total score as final_score
ReturnResult_last_round_score ==
    /\ pc = "final"
    /\ \E final_response \in ProponentIds :
         result' = [ status           |-> status,
                     total_rounds     |-> Len(rounds),
                     final_position   |-> final_response,
                     final_score      |->
                       total_score(rounds[Len(rounds)].round_score),
                     voting_result    |-> voting_result,
                     rounds           |-> rounds,
                     consensus_points |-> extract_points(rounds).consensus,
                     disputed_points  |-> extract_points(rounds).disputed,
                     re_evaluations   |-> re_evaluations ]
    /\ outcome' = "returned"
    /\ pc' = "idle"
    /\ UNCHANGED <<cfg, status, rounds, round_num, recent_scores,
                   current_position, review, defense, re_evaluations,
                   voting_result, votes, suspended, moat_vars,
                   cons_vars, unit_vars>>

\* lines 208-223: the final position arrives, the DebateResult is returned
ReturnResult ==
    /\ pc = "final"
    /\ \E final_response \in ProponentIds :
         result' = [ status           |-> status,
                     total_rounds     |-> Len(rounds),
                     final_position   |-> final_response,
                     final_score      |-> voting_result.weighted_average,
                     voting_result    |-> voting_result,
                     rounds           |-> rounds,
                     consensus_points |-> extract_points(rounds).consensus,
                     disputed_points  |-> extract_points(rounds).disputed,
                     re_evaluations   |-> re_evaluations ]
    /\ outcome' = "returned"
    /\ pc' = "idle"
    /\ UNCHANGED <<cfg, status, rounds, round_num, recent_scores,
                   current_position, review, defense, re_evaluations,
                   voting_result, votes, suspended, moat_vars,
                   cons_vars, unit_vars>>

\* A failing initial position is asked for again instead of ending the call
AgentRaises_initial_retried ==
    /\ pc \in {"initial", "review", "defend", "revise", "final"}
    /\ outcome' = "raised"
    /\ pc' = IF pc = "initial" THEN "initial" ELSE "idle"
    /\ UNCHANGED <<cfg, status, rounds, round_num, recent_scores,
                   current_position, review, defense, re_evaluations,
                   voting_result, votes, result, suspended, moat_vars,
                   cons_vars, unit_vars>>

\* An awaited agent call raises: nothing in run_debate catches it, the call
\* ends without a result.  (The moat catches its own agents' exceptions.)
AgentRaises ==
    /\ pc \in {"initial", "review", "defend", "revise", "final"}
    /\ outcome' = "raised"
    /\ pc' = "idle"
    /\ UNCHANGED <<cfg, status, rounds, round_num, recent_scores,
                   current_position, review, defense, re_evaluations,
                   voting_result, votes, result, suspended, moat_vars,
                   cons_vars, unit_vars>>

Next ==
    \/ RunDebate \/ InitialPosition \/ StartRound \/ ReviewPosition
    \/ RespondToCritique \/ FinishRound \/ ExhaustRounds \/ RunVoting
    \/ RequestRevision \/ Revise \/ RequestFinal \/ ReturnResult
    \/ AgentRaises

Spec == DebateInit /\ [][Next]_vars

\* The steps of a run_debate call in flight: every awaited call returns or
\* raises, and the code between two awaits runs to the next await
RunStep ==
    \/ InitialPosition \/ StartRound \/ ReviewPosition \/ RespondToCritique
    \/ FinishRound \/ ExhaustRounds \/ RunVoting \/ RequestRevision \/ Revise
    \/ RequestFinal \/ ReturnResult \/ AgentRaises

\* An engine of at most two rounds and a window of two scores
FairInit ==
    /\ DebateInit
    /\ cfg.max_rounds <= 2
    /\ cfg.convergence_rounds = 2
    /\ cfg.max_retries = 3

\* run_debate on an event loop that keeps running the call in flight; when
\* the engine is called is up to its caller
SpecFair == FairInit /\ [][Next]_vars /\ WF_vars(RunStep)

----------------------------------------------------------------------------
(* Two run_debate calls on one engine.  self.rounds and self.status belong  *)
(* to the engine; everything else run_debate uses is local to the call.    *)
(* The calls run on one event loop: the running call goes on until an      *)
(* await that really suspends it.  The shipped agents answer without       *)
(* suspending (base_agent.py:250-272 call the client synchronously), the   *)
(* moat's web validation (moat_engine.py:157) waits for the network.       *)

\* The locals of the call that is running
Frame ==
    [ pc               |-> pc,
      round_num        |-> round_num,
      recent_scores    |-> recent_scores,
      current_position |-> current_position,
      review           |-> review,
      defense          |-> defense,
      re_evaluations   |-> re_evaluations,
      voting_result    |-> voting_result,
      votes            |-> votes,
      outcome          |-> outcome,
      result           |-> result ]

\* A call that has not been made yet
IdleFrame ==
    [ pc               |-> "idle",
      round_num        |-> 0,
      recent_scores    |-> <<>>,
      current_position |-> "none",
      review           |-> "none",
      defense          |-> "none",
      re_evaluations   |-> 0,
      voting_result    |-> NoVote,
      votes            |-> 0,
      outcome          |-> "none",
      result           |-> NoResult ]

\* Settings of the engine the two calls share
InterleavedCfg ==
    [ max_rounds |-> 1, quality_threshold |-> 8500, convergence_rounds |-> 2,
      pass_threshold |-> 7500, max_retries |-> 3 ]

\* One engine, two callers
InterleavedInit ==
    /\ cfg = InterleavedCfg
    /\ status = "not_started"
    /\ rounds = <<>>
    /\ pc = "idle"
    /\ round_num = 0
    /\ recent_scores = <<>>
    /\ current_position = "none"
    /\ review = "none"
    /\ defense = "none"
    /\ re_evaluations = 0
    /\ voting_result = NoVote
    /\ votes = 0
    /\ outcome = "none"
    /\ result = NoResult
    /\ suspended = IdleFrame
    /\ moat_cfg = [strict_mode |-> TRUE, proponent |-> TRUE, reviewer |-> TRUE]
    /\ moat_pc = "idle"
    /\ moat_todo = 0
    /\ moat_verifs = <<>>
    /\ moat_report = NoReport
    /\ moat_text = <<>>
    /\ moat_calls = NoCalls
    /\ ConsensusIdle
    /\ UnitsIdle

\* The event loop passes control to the other call: the running call waits
\* for the moat's network I/O (line 149), or is over or not begun
SwitchCall ==
    /\ suspended # NoCall
    /\ pc \in {"idle", "moat"}
    /\ suspended' = Frame
    /\ pc' = suspended.pc
    /\ round_num' = suspended.round_num
    /\ recent_scores' = suspended.recent_scores
    /\ current_position' = suspended.current_position
    /\ review' = suspended.review
    /\ defense' = suspended.defense
    /\ re_evaluations' = suspended.re_evaluations
    /\ voting_result' = suspended.voting_result
    /\ votes' = suspended.votes
    /\ outcome' = suspended.outcome
    /\ result' = suspended.result
    /\ UNCHANGED <<cfg, status, rounds, moat_vars, cons_vars, unit_vars>>

NextInterleaved == Next \/ SwitchCall

SpecInterleaved == InterleavedInit /\ [][NextInterleaved]_vars

----------------------------------------------------------------------------
(* Consensus generator: consensus.py.  Of the Consensus it builds, the      *)
(* verdict and the confidence are modelled; the confidence is in units of  *)
(* 1/200 point (twice the hundredths), so that the average stays integral. *)

NoConsensus == [none |-> TRUE]

\* Scores a DebateResult or a VotingResult may carry, in hundredths
ScoreSamples == {0, 5000, 7499, 7500, 8499, 8500, 10000}

\* _determine_verdict holding a converged debate to the consensus bar of 85
determine_verdict_converged_at_85(debate_result, vr) ==
    IF vr # NoVote /\ ~vr.passed THEN "REJECTED"
    ELSE IF debate_result.status = "consensus_reached"
    THEN (IF debate_result.final_score >= 8500 THEN "VALIDATED"
          ELSE "PARTIALLY VALIDATED")
    ELSE IF debate_result.status = "converged"
    THEN (IF debate_result.final_score >= 8500 THEN "PARTIALLY VALIDATED"
          ELSE "NEEDS REVISION")
    ELSE IF debate_result.status = "deadlock" THEN "INCONCLUSIVE"
    ELSE "PARTIALLY VALIDATED"

\* _determine_verdict testing the vote after the debate status
determine_verdict_vote_last(debate_result, vr) ==
    IF debate_result.status = "consensus_reached"
    THEN (IF debate_result.final_score >= 8500 THEN "VALIDATED"
          ELSE "PARTIALLY VALIDATED")
    ELSE IF debate_result.status = "converged"
    THEN (IF debate_result.final_score >= 7500 THEN "PARTIALLY VALIDATED"
          ELSE "NEEDS REVISION")
    ELSE IF debate_result.status = "deadlock" THEN "INCONCLUSIVE"
    ELSE IF vr # NoVote /\ ~vr.passed THEN "REJECTED"
    ELSE "PARTIALLY VALIDATED"

\* consensus.py _determine_verdict
determine_verdict(debate_result, vr) ==
    IF vr # NoVote /\ ~vr.passed THEN "REJECTED"
    ELSE IF debate_result.status = "consensus_reached"
    THEN (IF debate_result.final_score >= 8500 THEN "VALIDATED"
          ELSE "PARTIALLY VALIDATED")
    ELSE IF debate_result.status = "converged"
    THEN (IF debate_result.final_score >= 7500 THEN "PARTIALLY VALIDATED"
          ELSE "NEEDS REVISION")
    ELSE IF debate_result.status = "deadlock" THEN "INCONCLUSIVE"
    ELSE "PARTIALLY VALIDATED"

\* _calculate_confidence without the floor at 0
consensus_confidence_unfloored(debate_result, vr) ==
    LET blended == IF vr # NoVote
                   THEN debate_result.final_score + vr.weighted_average
                   ELSE 2 * debate_result.final_score
        penalty == debate_result.re_evaluations * 5
    IN  blended - penalty * 200

\* consensus.py _calculate_confidence
consensus_confidence(debate_result, vr) ==
    LET blended == IF vr # NoVote
                   THEN debate_result.final_score + vr.weighted_average
                   ELSE 2 * debate_result.final_score
        penalty == debate_result.re_evaluations * 5
    IN  Max(0, blended - penalty * 200)

\* The arguments a caller hands to generate
ConsensusInit ==
    /\ DebateIdle
    /\ UnitsIdle
    /\ moat_cfg = [strict_mode |-> TRUE, proponent |-> TRUE, reviewer |-> TRUE]
    /\ moat_pc = "idle"
    /\ moat_todo = 0
    /\ moat_verifs = <<>>
    /\ moat_report = NoReport
    /\ moat_text = <<>>
    /\ moat_calls = NoCalls
    /\ cons_debate \in [ status : DebateStatus, final_score : ScoreSamples,
                         re_evaluations : 0..RetryCap ]
    /\ cons_vote \in {NoVote} \cup [ passed : BOOLEAN,
                                     weighted_average : ScoreSamples ]
    /\ consensus = NoConsensus

\* consensus.py generate
Generate ==
    /\ consensus = NoConsensus
    /\ cons_debate # NoResult
    /\ consensus' = [ verdict    |-> determine_verdict(cons_debate, cons_vote),
                      confidence |-> consensus_confidence(cons_debate, cons_vote) ]
    /\ UNCHANGED <<cons_debate, cons_vote, moat_vars, debate_vars,
                   unit_vars>>

ConsensusNext == Generate

SpecConsensus == ConsensusInit /\ [][ConsensusNext]_vars

----------------------------------------------------------------------------
(* Web validator: WebValidator.validate *)

NoRun == [none |-> TRUE]

\* What the HEAD request of the DOI resolution and of the direct URL check
\* can meet: status 200, status 403, any other status, or an exception
\* (aiohttp.ClientError, asyncio.TimeoutError after self.timeout seconds)
HeadAnswers == {"ok_200", "forbidden_403", "other_status", "exception"}

\* What the GET request of a search can meet: status 200 with a usable
\* first entry, status 200 without one, another status, or an exception
\* (network error, timeout, a body that cannot be read)
SearchAnswers == {"hit", "no_hit", "other_status", "exception"}

\* The strategies by the names used for their calls
Strategies == {"doi", "url", "semantic_scholar", "crossref", "arxiv"}

ValidationResult(vstatus, confidence, source) ==
    [ status |-> vstatus, confidence |-> confidence, source |-> source ]

\* The result every strategy falls through to, and validate's last return
NotFound == ValidationResult("not_found", 0, "none")

\* An exception leaving the function instead of a result
Raised == ValidationResult("raised", 0, "none")

\* _validate_doi
validate_doi(answer) ==
    CASE answer = "ok_200"    -> ValidationResult("verified", 100, "DOI.org")
      [] answer = "exception" -> NotFound        \* except Exception: pass
      [] OTHER                -> NotFound

\* _validate_url
validate_url(answer) ==
    CASE answer = "ok_200"        -> ValidationResult("verified", 90, "Direct URL")
      [] answer = "forbidden_403" -> ValidationResult("partial_match", 70,
                                                      "Direct URL (restricted)")
      [] answer = "exception"     -> NotFound    \* except Exception: pass
      [] OTHER                    -> NotFound

\* _search_semantic_scholar
search_semantic_scholar(answer) ==
    CASE answer = "hit"       -> ValidationResult("verified", 85, "Semantic Scholar")
      [] answer = "exception" -> NotFound        \* except Exception: pass
      [] OTHER                -> NotFound

\* _search_crossref with the exception handler left out
search_crossref_unguarded(answer) ==
    CASE answer = "hit"       -> ValidationResult("verified", 85, "CrossRef")
      [] answer = "exception" -> Raised
      [] OTHER                -> NotFound

\* _search_crossref
search_crossref(answer) ==
    CASE answer = "hit"       -> ValidationResult("verified", 85, "CrossRef")
      [] answer = "exception" -> NotFound        \* except Exception: pass
      [] OTHER                -> NotFound

\* _search_arxiv
search_arxiv(answer) ==
    CASE answer = "hit"       -> ValidationResult("verified", 80, "arXiv")
      [] answer = "exception" -> NotFound        \* except Exception: pass
      [] OTHER                -> NotFound

\* The call validate makes for a strategy
strategy_result(s, net) ==
    CASE s = "doi"              -> validate_doi(net[s])
      [] s = "url"              -> validate_url(net[s])
      [] s = "semantic_scholar" -> search_semantic_scholar(net[s])
      [] s = "crossref"         -> search_crossref(net[s])
      [] s = "arxiv"            -> search_arxiv(net[s])

\* The strategies validate goes through, in the order of its statements:
\* the DOI if one is given (line 83), the URL if one is given (line 90),
\* Semantic Scholar, CrossRef, and arXiv, whose condition (line 111) is true
\* whenever it is evaluated, the CrossRef result not being verified there
strategy_sequence(citation) ==
    (IF citation.doi THEN <<"doi">> ELSE <<>>)
      \o (IF citation.url THEN <<"url">> ELSE <<>>)
      \o <<"semantic_scholar", "crossref", "arxiv">>

\* The search_queries_used of a verified result validate returns: the DOI and
\* URL results are returned as the strategy built them (lines 85-86, 92-93),
\* with their own query only; the search results are given validate's
\* accumulated list first (lines 98-100, 105-107, 113-116)
returned_queries(s, search_queries) ==
    IF s \in {"doi", "url"} THEN <<s>> ELSE Append(search_queries, s)

\* validate from one of its strategy calls on: calls lists the strategies
\* invoked so far, which is also what search_queries holds there, every
\* strategy that did not verify having added its one query.  A verified
\* result is returned at once; an exception that leaves a strategy leaves
\* validate; after the last strategy a fresh not-found result is returned
\* (lines 118-124)
RECURSIVE cascade(_, _, _)
cascade(todo, net, calls) ==
    IF todo = <<>>
    THEN [ outcome |-> "returned", result |-> NotFound, calls |-> calls,
           search_queries_used |-> calls ]
    ELSE LET s == Head(todo)
             r == strategy_result(s, net)
         IN  CASE r.status = "raised" ->
                    [ outcome |-> "raised", result |-> NoRun,
                      calls |-> Append(calls, s),
                      search_queries_used |-> <<>> ]
               [] r.status = "verified" ->
                    [ outcome |-> "returned", result |-> r,
                      calls |-> Append(calls, s),
                      search_queries_used |-> returned_queries(s, calls) ]
               [] OTHER -> cascade(Tail(todo), net, Append(calls, s))

\* validate
validate(citation, net) == cascade(strategy_sequence(citation), net, <<>>)

\* The citation moat at rest
MoatIdle ==
    /\ moat_cfg = [strict_mode |-> TRUE, proponent |-> TRUE, reviewer |-> TRUE]
    /\ moat_pc = "idle"
    /\ moat_todo = 0
    /\ moat_verifs = <<>>
    /\ moat_report = NoReport
    /\ moat_text = <<>>
    /\ moat_calls = NoCalls

\* One validate call: its arguments and what the network will answer
ValidatorInit ==
    /\ MoatIdle
    /\ DebateIdle
    /\ ConsensusIdle
    /\ BatchIdle
    /\ ExtractorIdle
    /\ ScorerIdle
    /\ ScenarioIdle
    /\ val_citation \in [ doi : BOOLEAN, url : BOOLEAN ]
    /\ val_net \in { f \in [ Strategies -> HeadAnswers \cup SearchAnswers ] :
                       /\ f["doi"] \in HeadAnswers
                       /\ f["url"] \in HeadAnswers
                       /\ \A s \in Strategies \ {"doi", "url"} :
                            f[s] \in SearchAnswers }
    /\ val_run = NoRun

\* web_validator.py validate
Validate ==
    /\ val_run = NoRun
    /\ val_run' = validate(val_citation, val_net)
    /\ UNCHANGED <<val_citation, val_net, batch_vars, extractor_vars,
                   scorer_vars, moat_vars, debate_vars, cons_vars, scenario_vars>>

ValidatorNext == Validate

SpecValidator == ValidatorInit /\ [][ValidatorNext]_vars

----------------------------------------------------------------------------
(* Web validator: WebValidator.batch_validate *)

NoResults == [none |-> TRUE]
Pending == [pending |-> TRUE]

\* The answers the network gives to the requests made for one citation
Answers(doi, url, semantic_scholar, crossref, arxiv) ==
    [ s \in Strategies |->
        CASE s = "doi"              -> doi
          [] s = "url"              -> url
          [] s = "semantic_scholar" -> semantic_scholar
          [] s = "crossref"         -> crossref
          [] s = "arxiv"            -> arxiv ]

\* The citations a batch is made of, each with the answers its lookup
\* meets: a DOI that resolves; a restricted URL that no search finds; an
\* author-year query found by Semantic Scholar
Lookups ==
    << [ citation |-> [doi |-> TRUE, url |-> FALSE],
         net |-> Answers("ok_200", "other_status", "no_hit", "no_hit", "no_hit") ],
       [ citation |-> [doi |-> FALSE, url |-> TRUE],
         net |-> Answers("other_status", "forbidden_403", "no_hit",
                         "exception", "no_hit") ],
       [ citation |-> [doi |-> FALSE, url |-> FALSE],
         net |-> Answers("other_status", "other_status", "hit", "no_hit",
                         "no_hit") ] >>

\* The ValidationResult of the lookup of one citation of a batch
lookup_result(c) == validate(Lookups[c].citation, Lookups[c].net).result

\* asyncio.gather with the results taken in the order of completion
gather_in_completion_order(tasks, completed) ==
    [ k \in 1..Len(completed) |-> tasks[completed[k]] ]

\* asyncio.gather(*tasks): the results in the order of its arguments
gather(tasks, completed) == [ i \in 1..Len(tasks) |-> tasks[i] ]

RECURSIVE SeqsUpTo(_, _)
\* the sequences over S of length at most n
SeqsUpTo(S, n) ==
    IF n = 0 THEN { <<>> }
    ELSE SeqsUpTo(S, n - 1) \cup
         { Append(q, x) : q \in { p \in SeqsUpTo(S, n - 1) : Len(p) = n - 1 },
                          x \in S }

\* The citations argument of one batch_validate call
BatchInit ==
    /\ MoatIdle
    /\ DebateIdle
    /\ ConsensusIdle
    /\ ValidatorIdle
    /\ ExtractorIdle
    /\ ScorerIdle
    /\ ScenarioIdle
    /\ batch_citations \in SeqsUpTo(DOMAIN Lookups, MaxBatch)
    /\ batch_pc = "idle"
    /\ batch_tasks = <<>>
    /\ batch_completed = <<>>
    /\ batch_results = NoResults

\* batch_validate, lines 338-347: one validate coroutine per citation, all
\* handed to asyncio.gather, which starts them together
BatchValidate ==
    /\ batch_pc = "idle"
    /\ batch_pc' = "gathering"
    /\ batch_tasks' = [ i \in 1..Len(batch_citations) |-> Pending ]
    /\ UNCHANGED <<batch_citations, batch_completed, batch_results,
                   validator_vars, extractor_vars, scorer_vars, moat_vars,
                   debate_vars, cons_vars, scenario_vars>>

\* One of the lookups in flight completes; which one is up to the network
LookupCompletes ==
    /\ batch_pc = "gathering"
    /\ \E i \in 1..Len(batch_tasks) :
         /\ batch_tasks[i] = Pending
         /\ batch_tasks' = [batch_tasks EXCEPT ![i] =
                              lookup_result(batch_citations[i])]
         /\ batch_completed' = Append(batch_completed, i)
    /\ UNCHANGED <<batch_citations, batch_pc, batch_results, validator_vars,
                   extractor_vars, scorer_vars, moat_vars, debate_vars,
                   cons_vars, scenario_vars>>

\* line 347: the await on gather ends when no lookup is pending
BatchReturn ==
    /\ batch_pc = "gathering"
    /\ \A i \in 1..Len(batch_tasks) : batch_tasks[i] # Pending
    /\ batch_results' = gather(batch_tasks, batch_completed)
    /\ batch_pc' = "returned"
    /\ UNCHANGED <<batch_citations, batch_tasks, batch_completed,
                   validator_vars, extractor_vars, scorer_vars, moat_vars,
                   debate_vars, cons_vars, scenario_vars>>

BatchNext == BatchValidate \/ LookupCompletes \/ BatchReturn

SpecBatch == BatchInit /\ [][BatchNext]_vars

----------------------------------------------------------------------------
(* Citation extractor: CitationExtractor.extract_all over pattern matches *)

NoCitations == [none |-> TRUE]

\* CitationType, without UNKNOWN, which no pattern produces
CitationTypes == {"author_year", "numbered", "doi", "url"}

\* PATTERNS: the number of patterns of each type, and the place of the
\* type in the dictionary, which is the order extract_all scans in
PatternCount ==
    [ t \in CitationTypes |->
        CASE t = "author_year" -> 3
          [] t = "numbered"    -> 1
          [] t = "doi"         -> 2
          [] t = "url"         -> 1 ]

ScanRank ==
    [ t \in CitationTypes |->
        CASE t = "author_year" -> 1
          [] t = "numbered"    -> 2
          [] t = "doi"         -> 3
          [] t = "url"         -> 4 ]

\* The character offsets of the text
Offsets == 0..3

\* A match of one pattern, made into a citation by _create_citation:
\* position is (match.start(), match.end()), and no match is empty
Matches ==
    { m \in [ citation_type : CitationTypes, pattern : 1..3,
              position : Offsets \X Offsets ] :
        /\ m.pattern <= PatternCount[m.citation_type]
        /\ m.position[1] < m.position[2] }

\* m is found before n by the loops of lines 104-109: types in dictionary
\* order, the patterns of a type in list order, the matches of a pattern
\* from left to right
ScannedBefore(m, n) ==
    \/ ScanRank[m.citation_type] < ScanRank[n.citation_type]
    \/ /\ m.citation_type = n.citation_type
       /\ \/ m.pattern < n.pattern
          \/ /\ m.pattern = n.pattern
             /\ m.position[2] <= n.position[1]   \* finditer: no overlap

RECURSIVE ScanLists(_)
\* the lists of at most n matches that the scan of some text can collect
ScanLists(n) ==
    IF n = 0 THEN { <<>> }
    ELSE LET shorter == ScanLists(n - 1)
             longest == { p \in shorter : Len(p) = n - 1 }
         IN  shorter \cup
             { Append(pm[1], pm[2]) :
                 pm \in { qm \in longest \X Matches :
                            \/ qm[1] = <<>>
                            \/ ScannedBefore(qm[1][Len(qm[1])], qm[2]) } }

\* _priority
priority(citation) ==
    CASE citation.citation_type = "doi"         -> 4
      [] citation.citation_type = "author_year" -> 3
      [] citation.citation_type = "numbered"    -> 2
      [] citation.citation_type = "url"         -> 1
      [] OTHER                                  -> 0

RECURSIVE sorted_by_start(_)
\* sorted(citations, key=lambda c: c.position[0]): a stable sort, so that
\* citations starting at the same offset stay in the order of the list
sorted_by_start(citations) ==
    IF citations = <<>> THEN <<>>
    ELSE LET n == Len(citations)
             x == citations[n]
             before == sorted_by_start(SubSeq(citations, 1, n - 1))
             k == Cardinality({ i \in 1..Len(before) :
                                  before[i].position[1] <= x.position[1] })
         IN  SubSeq(before, 1, k) \o <<x>> \o SubSeq(before, k + 1, Len(before))

\* _deduplicate, lines 167-175, with the overlap test left out: a citation
\* is appended whatever the end of the last one kept
deduplicate_step_no_overlap_test(kept, citation) == Append(kept, citation)

\* _deduplicate, lines 167-175: one iteration of the loop
deduplicate_step(kept, citation) ==
    LET last == kept[Len(kept)]
    IN  IF citation.position[1] >= last.position[2]
        THEN Append(kept, citation)
        ELSE IF /\ citation.position[2] > last.position[2]
                /\ priority(citation) > priority(last)
             THEN [kept EXCEPT ![Len(kept)] = citation]
             ELSE kept

RECURSIVE deduplicate_loop(_, _)
deduplicate_loop(kept, rest) ==
    IF rest = <<>> THEN kept
    ELSE deduplicate_loop(deduplicate_step(kept, Head(rest)), Tail(rest))

\* _deduplicate
deduplicate(citations) ==
    IF citations = <<>> THEN <<>>
    ELSE LET sorted_citations == sorted_by_start(citations)
         IN  deduplicate_loop(<<Head(sorted_citations)>>, Tail(sorted_citations))

\* extract_all, lines 111-117, from the matches collected by its loops
extract_citations(matches) == sorted_by_start(deduplicate(matches))

\* The matches the patterns find in the text handed to extract_all
ExtractorInit ==
    /\ MoatIdle
    /\ DebateIdle
    /\ ConsensusIdle
    /\ ValidatorIdle
    /\ BatchIdle
    /\ ScorerIdle
    /\ ScenarioIdle
    /\ ex_matches \in ScanLists(MaxMatches)
    /\ ex_citations = NoCitations

\* extractor.py extract_all
ExtractAll ==
    /\ ex_citations = NoCitations
    /\ ex_citations' = [ list |-> extract_citations(ex_matches) ]
    /\ UNCHANGED <<ex_matches, validator_vars, batch_vars, scorer_vars,
                   moat_vars, debate_vars, cons_vars, scenario_vars>>

ExtractorNext == ExtractAll

SpecExtractor == ExtractorInit /\ [][ExtractorNext]_vars

----------------------------------------------------------------------------
(* Scoring system and voting engine called on their own: score_round and   *)
(* the votes of VotingEngine.vote on arbitrary texts.                       *)

NoScore == [none |-> TRUE]
NoVotes == [none |-> TRUE]

\* The markers the scoring system looks for in the Proponent's response
EvidenceMarkers == {"study shows", "research indicates", "evidence suggests",
                    "data demonstrates"}
LogicWords == {"therefore", "because", "thus", "consequently", "hence",
               "follows that"}
MethodMarkers == {"methodology", "systematic", "peer-reviewed", "replicated",
                  "controlled"}
StructureMarkers == {"first", "second", "finally", "in conclusion",
                     "to summarize"}
\* ... in the Reviewer's response
FallacyIndicators == {"fallacy", "non sequitur", "circular", "strawman",
                      "ad hominem"}

\* the union of the sets of a family
Union(family) == UNION family

\* Responses of a Proponent: none, one or all of the markers of each kind,
\* under 100 words, between 100 and 1000, or over 1000
ScoredProponentTexts ==
    { Text(Union({e, l, m, s}), 0, w, FALSE) :
        e \in {{}, {"study shows"}, EvidenceMarkers},
        l \in {{}, LogicWords},
        m \in {{}, {"systematic"}, MethodMarkers \cup {"limitation"}},
        s \in {{}, StructureMarkers},
        w \in {"short", "medium", "long"} }

\* Responses of a Reviewer: silent on accuracy, "inaccurate" or "accurate";
\* naming none, one or all of the fallacies
ScoredReviewerTexts ==
    { Text(Union({a, f}), 0, "medium", FALSE) :
        a \in {{}, {"inaccurate"}, {"accurate"}},
        f \in {{}, {"fallacy"}, FallacyIndicators} }

\* The citation_report argument: None, or a report of the moat with
\* 0..MaxCitations citations, some of them kept
ScoredReports ==
    {NoReport} \cup
    { r \in [ total_citations : 0..MaxCitations,
              verified_count : 0..MaxCitations ] :
        r.verified_count <= r.total_citations }

\* The positions put to the vote: the markers of each criterion present or
\* not, 0 to 6 citation marks ("[citation:" is one of them), at most or
\* more than 5000 characters
VotedPositions ==
    { t \in { Text(Union({a, k, l, m, s}), c, "medium", long) :
                a \in SUBSET {"[verified]", "citation removed"},
                k \in {{}, {"[claim:", "[citation:"}},
                l \in {{}, {"thus"}, {"invalid"},
                       {"therefore", "because", "thus", "hence",
                        "consequently"}},
                m \in {{}, {"systematic", "peer-reviewed", "methodology",
                            "analysis"}},
                s \in {{}, {"first,"},
                       {"first,", "second,", "finally,", "in summary"}},
                c \in {0, 1, 6},
                long \in BOOLEAN } :
        "[citation:" \in t.tokens => t.cite_marks > 0 }

\* The pass thresholds of the engines that vote, in hundredths of a point
VotePassThresholds == {7500, 10000}

\* VoteStatus
VoteStatus == {"pass", "fail", "abstain"}

\* _vote_criterion with the abstention band at half the threshold
vote_criterion_half_band(criterion, position, pass_threshold) ==
    LET score == analyze_criterion(criterion, position)
    IN  [ criterion |-> criterion,
          score     |-> score,
          status    |-> IF score * 100 >= pass_threshold THEN "pass"
                        ELSE IF score * 100 * 10 >= pass_threshold * 5
                             THEN "abstain"
                             ELSE "fail" ]

\* voting.py _vote_criterion: the CriterionVote, without its feedback
vote_criterion(criterion, position, pass_threshold) ==
    LET score == analyze_criterion(criterion, position)
    IN  [ criterion |-> criterion,
          score     |-> score,
          status    |-> IF score * 100 >= pass_threshold THEN "pass"
                        ELSE IF score * 100 * 10 >= pass_threshold * 7
                             THEN "abstain"
                             ELSE "fail" ]

\* A scoring system and a voting engine at rest
ScorerInit ==
    /\ MoatIdle
    /\ DebateIdle
    /\ ConsensusIdle
    /\ ValidatorIdle
    /\ BatchIdle
    /\ ExtractorIdle
    /\ ScenarioIdle
    /\ score_args = NoScore
    /\ scored = NoScore
    /\ vote_args = NoVotes
    /\ criterion_votes = NoVotes
    /\ voted = NoVote

\* scoring.py score_round
ScoreRound ==
    /\ scored = NoScore
    /\ criterion_votes = NoVotes
    /\ \E p \in ScoredProponentTexts, r \in ScoredReviewerTexts,
          report \in ScoredReports :
         /\ score_args' = [ proponent_response |-> p, reviewer_response |-> r,
                            citation_report |-> report ]
         /\ scored' = score_round(p, r, report)
    /\ UNCHANGED <<vote_args, criterion_votes, voted, validator_vars,
                   batch_vars, extractor_vars, moat_vars, debate_vars,
                   cons_vars, scenario_vars>>

\* voting.py vote: one CriterionVote per criterion (lines 114-125) and the
\* VotingResult made of them (lines 127-146)
Vote ==
    /\ scored = NoScore
    /\ criterion_votes = NoVotes
    /\ \E position \in VotedPositions, threshold \in VotePassThresholds :
         /\ vote_args' = [ position |-> position, pass_threshold |-> threshold ]
         /\ criterion_votes' =
              [ c \in CRITERIA |-> vote_criterion(c, position, threshold) ]
         /\ voted' = vote(position, threshold)
    /\ UNCHANGED <<score_args, scored, validator_vars, batch_vars,
                   extractor_vars, moat_vars, debate_vars, cons_vars, scenario_vars>>

ScorerNext == ScoreRound \/ Vote

SpecScorer == ScorerInit /\ [][ScorerNext]_vars

----------------------------------------------------------------------------
(* One debate on scripted agents, run once on each of two citation lists:  *)
(* the agents answer every call of one kind with the same canned response, *)
(* so the two runs differ only in what the moat finds out about the        *)
(* citations of the round's combined text.                                 *)

NoPair == [none |-> TRUE]

\* The first citation of the combined text: it verifies or matches in part
SurvivingCitations ==
    { Cite("verified", "verified", "verified"),
      Cite("partial_match", "verified", "unverified") }

\* The second citation when it is fabricated: the web finds nothing
FabricatedCitations ==
    { Cite("not_found", r[1], r[2]) :
        r \in {"unverified", "suspicious", "raise"}
              \X {"unverified", "suspicious"} }

Scripts ==
    [ critique : ReviewerIds, defense : ProponentIds, revision : ProponentIds ]

\* run_debate lines 133-185 on scripted agents: the round loop from round
\* k + 1 on, returning the status the loop leaves and the rounds recorded
RECURSIVE scripted_rounds(_, _, _, _, _, _, _)
scripted_rounds(c, mcfg, script, cites, k, window, rs) ==
    IF k >= c.max_rounds THEN [status |-> "in_progress", rounds |-> rs]
    ELSE LET citation_report == verify_text(mcfg, cites)
             round_score == score_round(ProponentTexts[script.defense],
                                        ReviewerTexts[script.critique],
                                        citation_report)
             total == total_score(round_score)
             scores == push_score(window, total, c.convergence_rounds)
             recorded == Append(rs,
                 [ round_number       |-> k + 1,
                   proponent_response |-> script.defense,
                   reviewer_response  |-> script.critique,
                   round_score        |-> round_score,
                   citation_report    |-> citation_report ])
         IN  IF check_convergence(scores, c.convergence_rounds)
             THEN [status |-> "converged", rounds |-> recorded]
             ELSE IF quality_reached(total, scores, c)
             THEN [status |-> "consensus_reached", rounds |-> recorded]
             ELSE scripted_rounds(c, mcfg, script, cites, k + 1, scores,
                                  recorded)

\* run_debate lines 191-205 on scripted agents: the vote on the position and
\* the re-evaluation loop, every revision being the canned one
RECURSIVE scripted_voting(_, _, _, _)
scripted_voting(c, script, position, re_evals) ==
    LET vr == vote(ProponentTexts[position], c.pass_threshold)
    IN  IF ~vr.passed /\ re_evals < RetryCap
        THEN scripted_voting(c, script, script.revision, re_evals + 1)
        ELSE [voting_result |-> vr, re_evaluations |-> re_evals]

\* run_debate on scripted agents and one citation list: the DebateResult
scripted_debate(c, mcfg, script, cites) ==
    LET looped == scripted_rounds(c, mcfg, script, cites, 0, <<>>, <<>>)
        settled == IF looped.status = "in_progress"
                   THEN "max_rounds_reached" ELSE looped.status
        voting == scripted_voting(c, script, script.defense, 0)
    IN  [ status         |-> settled,
          total_rounds   |-> Len(looped.rounds),
          final_score    |-> voting.voting_result.weighted_average,
          voting_result  |-> voting.voting_result,
          rounds         |-> looped.rounds,
          re_evaluations |-> voting.re_evaluations ]

\* ConsensusGenerator.generate on a DebateResult and its own voting result
scripted_consensus(debate_result) ==
    [ verdict       |-> determine_verdict(debate_result,
                                          debate_result.voting_result),
      confidence    |-> consensus_confidence(debate_result,
                                             debate_result.voting_result),
      debate_result |-> debate_result ]

ScenarioInit ==
    /\ MoatIdle
    /\ DebateIdle
    /\ ConsensusIdle
    /\ ValidatorIdle
    /\ BatchIdle
    /\ ExtractorIdle
    /\ ScorerIdle
    /\ \E c \in [ max_rounds : 1..MaxRounds,
                  quality_threshold : QualityThresholds,
                  convergence_rounds : 1..MaxConvergence,
                  pass_threshold : PassThresholds ],
          script \in Scripts,
          first \in SurvivingCitations,
          fabricated \in FabricatedCitations :
         scenario = [ cfg |-> c, script |-> script, first |-> first,
                      fabricated |-> fabricated ]
    /\ consensus_pair = NoPair

\* The two runs: the second citation fabricated in one, verified in the other
\* (the engine's moat has both agents and the strict mode)
RunBoth ==
    /\ consensus_pair = NoPair
    /\ LET mcfg == [strict_mode |-> TRUE, proponent |-> TRUE,
                    reviewer |-> TRUE]
           run(second) == scripted_consensus(
               scripted_debate(scenario.cfg, mcfg, scenario.script,
                               <<scenario.first, second>>))
       IN  consensus_pair' =
               [ fabricated |-> run(scenario.fabricated),
                 verified   |-> run(Cite("verified", "verified", "verified")) ]
    /\ UNCHANGED <<scenario, validator_vars, batch_vars, extractor_vars,
                   scorer_vars, moat_vars, debate_vars, cons_vars>>

SpecScenario == ScenarioInit /\ [][RunBoth]_vars

----------------------------------------------------------------------------
(* Properties of the citation moat *)

\* C1: for every web status among verified, partial-match, not-found and
\* error, every pair of agent verdicts and either strict-mode setting, the
\* decision of a verification is the one of the decision table: verified and
\* both agents true -> keep; verified and an agent false -> flag;
\* partial-match and an agent true -> modify; partial-match and both false ->
\* flag; not-found or error -> delete in strict mode, flag otherwise.
C1_DecisionTable ==
    \A i \in 1..Len(moat_verifs) :
      LET v == moat_verifs[i]
          a == v.agent_a_verified
          b == v.agent_b_verified
      IN  /\ (v.web_status = "verified" /\ a /\ b) => v.decision = "keep"
          /\ (v.web_status = "verified" /\ ~(a /\ b)) => v.decision = "flag"
          /\ (v.web_status = "partial_match" /\ (a \/ b)) => v.decision = "modify"
          /\ (v.web_status = "partial_match" /\ ~a /\ ~b) => v.decision = "flag"
          /\ (v.web_status \in {"not_found", "error"} /\ moat_cfg.strict_mode)
               => v.decision = "delete"
          /\ (v.web_status \in {"not_found", "error"} /\ ~moat_cfg.strict_mode)
               => v.decision = "flag"

\* A finished non-strict report holding a modified citation and a flagged
\* not-found citation that an agent had verified
C1_Witness ==
    /\ moat_pc = "done"
    /\ ~moat_cfg.strict_mode
    /\ \E j, k \in 1..Len(moat_verifs) :
         /\ moat_verifs[j].decision = "modify"
         /\ moat_verifs[k].web_status = "not_found"
         /\ moat_verifs[k].agent_a_verified
         /\ moat_verifs[k].decision = "flag"

\* the verification built last
LastVerification == moat_verifs[Len(moat_verifs)]

\* C15 (as claimed): an agent whose verify_citation call raises is recorded
\* as not having verified the citation, whatever the web status is.
C15_FailedAgentCountsAsUnverified ==
    moat_verifs # <<>> =>
      /\ moat_calls.a = "raised" => ~LastVerification.agent_a_verified
      /\ moat_calls.b = "raised" => ~LastVerification.agent_b_verified

\* C16: an agent that is not configured is not called, and its verdict for
\* every citation is (web status = verified); with neither agent configured
\* a web-verified citation is kept and a partial-match citation is flagged.
C16_AbsentAgentFollowsWeb ==
    /\ ~moat_cfg.proponent =>
         /\ moat_calls.a = "not_called"
         /\ \A i \in 1..Len(moat_verifs) :
              moat_verifs[i].agent_a_verified
                <=> moat_verifs[i].web_status = "verified"
    /\ ~moat_cfg.reviewer =>
         /\ moat_calls.b = "not_called"
         /\ \A i \in 1..Len(moat_verifs) :
              moat_verifs[i].agent_b_verified
                <=> moat_verifs[i].web_status = "verified"
    /\ (~moat_cfg.proponent /\ ~moat_cfg.reviewer) =>
         \A i \in 1..Len(moat_verifs) :
           /\ moat_verifs[i].web_status = "verified"
                => moat_verifs[i].decision = "keep"
           /\ moat_verifs[i].web_status = "partial_match"
                => moat_verifs[i].decision = "flag"

\* A report of a moat without agents: one citation kept on the web result
\* alone, one partial match flagged
C16_Witness ==
    /\ moat_pc = "done"
    /\ ~moat_cfg.proponent
    /\ ~moat_cfg.reviewer
    /\ Len(moat_verifs) = 2
    /\ moat_verifs[1].web_status = "verified"
    /\ moat_verifs[1].decision = "keep"
    /\ moat_verifs[2].web_status = "partial_match"
    /\ moat_verifs[2].decision = "flag"

\* how often character c occurs in text t
Occurrences(t, c) == Cardinality({ i \in 1..Len(t) : t[i] = c })

\* C17: in a report produced in strict mode every citation whose web status
\* is not-found or error is deleted whatever the agents said, deleted_count
\* counts the deleted citations, and in clean_text the removed marker stands
\* in place of each deleted span; in a report produced in non-strict mode
\* nothing is deleted (deleted_count = 0, no removed marker) and these
\* citations are flagged.
C17_StrictModeDeletes ==
    moat_pc = "done" =>
      LET n == Len(moat_report.verifications)
          v(i) == moat_report.verifications[i]
          unverifiable == { i \in 1..n : v(i).web_status \in {"not_found", "error"} }
          deleted == { i \in 1..n : v(i).decision = "delete" }
      IN  /\ moat_cfg.strict_mode =>
                /\ unverifiable \subseteq deleted
                /\ moat_report.deleted_count = Cardinality(deleted)
                /\ \A i \in deleted : Occurrences(moat_report.clean_text, i) = 0
                /\ Occurrences(moat_report.clean_text, RemovedMarker[1])
                     = Len(RemovedMarker) * Cardinality(deleted)
          /\ ~moat_cfg.strict_mode =>
                /\ deleted = {}
                /\ moat_report.deleted_count = 0
                /\ \A i \in unverifiable : v(i).decision = "flag"
                /\ Occurrences(moat_report.clean_text, RemovedMarker[1]) = 0

\* A strict report whose two citations were deleted: one not found although
\* both agents vouched for it, one whose validation ended in an error
C17_Witness ==
    /\ moat_pc = "done"
    /\ moat_cfg.strict_mode
    /\ Len(moat_verifs) = 2
    /\ moat_verifs[1].web_status = "not_found"
    /\ moat_verifs[1].agent_a_verified
    /\ moat_verifs[1].agent_b_verified
    /\ moat_verifs[2].web_status = "error"
    /\ moat_report.deleted_count = 2
    /\ moat_report.clean_text = <<0>> \o RemovedMarker \o <<0>> \o RemovedMarker
                                \o <<0>>

\* C18: the confidence of a verification is 40 for a verified web status, 20
\* for a partial match, 0 otherwise, plus 30 for each agent that verified; it
\* lies in 0..100 and is the same for the same three signals whatever the
\* decision and the strict-mode flag are.
C18_ConfidenceBlend ==
    \A i \in 1..Len(moat_verifs) :
      LET v == moat_verifs[i]
          web == CASE v.web_status = "verified" -> 40
                   [] v.web_status = "partial_match" -> 20
                   [] OTHER -> 0
          one(agent) == IF agent THEN 30 ELSE 0
      IN  /\ v.confidence = web + one(v.agent_a_verified) + one(v.agent_b_verified)
          /\ v.confidence \in 0..100
          /\ \A j \in 1..Len(moat_verifs) :
               ( /\ moat_verifs[j].web_status = v.web_status
                 /\ moat_verifs[j].agent_a_verified = v.agent_a_verified
                 /\ moat_verifs[j].agent_b_verified = v.agent_b_verified )
                 => moat_verifs[j].confidence = v.confidence

\* A partial match one agent verified (confidence 50, modified) next to a
\* citation not found that both agents verified (confidence 60, deleted)
C18_Witness ==
    /\ moat_cfg.strict_mode
    /\ Len(moat_verifs) = 2
    /\ moat_verifs[1].web_status = "partial_match"
    /\ moat_verifs[1].agent_a_verified /\ ~moat_verifs[1].agent_b_verified
    /\ moat_verifs[1].confidence = 50
    /\ moat_verifs[1].decision = "modify"
    /\ moat_verifs[2].web_status = "not_found"
    /\ moat_verifs[2].confidence = 60
    /\ moat_verifs[2].decision = "delete"

\* What stands in clean_text for the i-th character of the text: the
\* character itself outside citations and in kept citations (and in modified
\* ones without an alternative source); otherwise the replacement of its
\* span, written where the span begins and ends
RewrittenChar(text, verifs, i) ==
    LET c == text[i]
        opens == i = 1 \/ text[i - 1] # c
        closes == i = Len(text) \/ text[i + 1] # c
    IN  IF c = 0 THEN <<c>>
        ELSE IF verifs[c].decision = "delete"
        THEN (IF opens THEN RemovedMarker ELSE <<>>)
        ELSE IF verifs[c].decision = "flag"
        THEN (IF opens THEN NeedsReviewOpen ELSE <<>>) \o <<c>>
             \o (IF closes THEN NeedsReviewClose ELSE <<>>)
        ELSE IF verifs[c].decision = "modify"
                /\ verifs[c].alternative_source # <<>>
        THEN (IF opens THEN verifs[c].alternative_source ELSE <<>>)
        ELSE <<c>>

\* the text rewritten character by character from left to right, up to i
RECURSIVE RewrittenUpTo(_, _, _)
RewrittenUpTo(text, verifs, i) ==
    IF i = 0 THEN <<>>
    ELSE RewrittenUpTo(text, verifs, i - 1) \o RewrittenChar(text, verifs, i)

\* C19: clean_text is the input text in which, the offsets being those of
\* the input, each deleted span is replaced by the removed marker, each
\* flagged span is wrapped unchanged in the needs-review marker, each
\* modified span is replaced by its alternative source when it has one, and
\* kept spans and the text outside the citations stay as they are, in order;
\* a text without citations is returned unchanged with total_citations 0.
C19_CleanTextRewrite ==
    moat_pc = "done" =>
      /\ moat_report.clean_text
           = RewrittenUpTo(moat_text, moat_report.verifications, Len(moat_text))
      /\ moat_report.total_citations = Len(extract_all(moat_text))
      /\ moat_report.total_citations = 0
           => moat_report.clean_text = moat_text

\* Two citations touching each other and the ends of the text, the first
\* deleted, the second flagged
C19_Witness ==
    /\ moat_pc = "done"
    /\ moat_text = <<1, 1, 2>>
    /\ moat_verifs[1].decision = "delete"
    /\ moat_verifs[2].decision = "flag"
    /\ moat_report.clean_text = RemovedMarker \o NeedsReviewOpen \o <<2>>
                                \o NeedsReviewClose

\* C20: verification_rate is 100 for a report without citations and
\* 100 * verified_count / total_citations otherwise (here its integer part),
\* hence within 0..100 whenever verified_count <= total_citations.
C20_VerificationRate ==
    moat_report # NoReport =>
      LET total == moat_report.total_citations
          verified == moat_report.verified_count
          rate == verification_rate(moat_report)
      IN  /\ total = 0 => rate = 100
          /\ total > 0 => /\ rate * total <= 100 * verified
                          /\ 100 * verified < (rate + 1) * total
          /\ verified <= total => rate \in 0..100

\* The report of a text without citations
C20_Witness ==
    /\ moat_pc = "done"
    /\ moat_text = <<0>>
    /\ moat_report.total_citations = 0
    /\ moat_report.verified_count = 0
    /\ verification_rate(moat_report) = 100

\* C37: every MoatReport verify_text returns has exactly one verification
\* per extracted citation, in position order, also when agent calls raised,
\* and verified + modified + deleted + flagged = total_citations = the number
\* of verifications.
C37_OneVerificationPerCitation ==
    moat_report # NoReport =>
      LET citations == extract_all(moat_text)
      IN  /\ Len(moat_report.verifications) = Len(citations)
          /\ \A i \in 1..Len(citations) : \A j \in 1..Len(citations) :
               i < j => citations[i].position[2] <= citations[j].position[1]
          /\ moat_report.total_citations = Len(moat_report.verifications)
          /\ moat_report.verified_count + moat_report.modified_count
               + moat_report.deleted_count + moat_report.flagged_count
             = moat_report.total_citations

\* A report on two citations, an agent call for the last of them having raised
C37_Witness ==
    /\ moat_pc = "done"
    /\ moat_report # NoReport
    /\ moat_report.total_citations = 2
    /\ Len(moat_report.verifications) = 2
    /\ moat_calls.a = "raised"

----------------------------------------------------------------------------
(* Properties of the debate engine.  They are stated over the recorded      *)
(* rounds, not over the engine's sliding window.                           *)

TerminalStatus == {"converged", "consensus_reached", "max_rounds_reached",
                   "deadlock"}

RECURSIVE SumFn(_, _)
SumFn(f, S) ==
    IF S = {} THEN 0
    ELSE LET x == CHOOSE y \in S : TRUE IN f[x] + SumFn(f, S \ {x})

\* total score of the k-th recorded round, in hundredths
ScoreOf(rs, k) == total_score(rs[k].round_score)

\* the rounds whose scores form the trailing window after round k
WindowOf(k, n) == { i \in 1..k : i > k - n }

\* After round k the window is full and the population variance of its scores
\* is below 25 points^2:  n^2 * variance = sum over pairs of squared differences
ConvergedAfter(rs, k, n) ==
    /\ k >= n
    /\ LET pairs == { p \in WindowOf(k, n) \X WindowOf(k, n) : p[1] < p[2] }
           sq == [ p \in pairs |-> (ScoreOf(rs, p[1]) - ScoreOf(rs, p[2]))
                                   * (ScoreOf(rs, p[1]) - ScoreOf(rs, p[2])) ]
       IN  SumFn(sq, pairs) < 25 * 10000 * n * n

\* After round k the window is full and all its scores, the one of round k
\* included, reach the quality threshold
QualityAfter(rs, k, n, threshold) ==
    /\ k >= n
    /\ \A i \in WindowOf(k, n) : ScoreOf(rs, i) >= threshold

RoundRecorded == Len(rounds') = Len(rounds) + 1

\* C2 (as claimed): the status only moves not_started -> in_progress -> one
\* terminal status; over any sequence of run_debate calls on an engine a
\* terminal status never changes again and no status is entered twice.
C2_StatusNeverReentered ==
    [][ \/ status' = status
        \/ status = "not_started" /\ status' = "in_progress"
        \/ status = "in_progress" /\ status' \in TerminalStatus ]_vars

\* C3: during one run_debate call the round history is append-only and
\* bounded: it holds exactly the rounds numbered 1..k in order after k
\* completed rounds, a recorded round is never removed or rewritten, k never
\* exceeds max_rounds, and the returned total_rounds is the number of
\* recorded rounds.
C3_RoundsAppendOnly ==
    /\ [](/\ Len(rounds) <= cfg.max_rounds
          /\ \A i \in 1..Len(rounds) : rounds[i].round_number = i
          /\ pc # "idle"
               => Len(rounds) = IF pc \in {"review", "defend", "moat"}
                                THEN round_num - 1 ELSE round_num
          /\ outcome = "returned"
               => /\ result.rounds = rounds
                  /\ result.total_rounds = Len(rounds))
    /\ [][ pc # "idle"
             => \/ rounds' = rounds
                \/ /\ RoundRecorded
                   /\ SubSeq(rounds', 1, Len(rounds)) = rounds ]_vars

\* A call that returned after recording three rounds
C3_Witness ==
    /\ outcome = "returned"
    /\ result.total_rounds = 3
    /\ Len(result.rounds) = 3

\* C4: whenever, after a round, the last convergence_rounds total scores have
\* a population variance below 25, the round loop stops at that round with
\* status converged, no more than max_rounds rounds having run; no round is
\* recorded afterwards.
C4_ConvergenceStops ==
    /\ [][ (RoundRecorded
            /\ ConvergedAfter(rounds', Len(rounds'), cfg.convergence_rounds))
             => /\ status' = "converged"
                /\ pc' = "after_loop"
                /\ Len(rounds') <= cfg.max_rounds ]_vars
    /\ [][ (status = "converged" /\ pc # "idle") => rounds' = rounds ]_vars

\* A three-round window of distinct scores converged in the third and last
\* allowed round
C4_Witness ==
    /\ status = "converged"
    /\ pc = "after_loop"
    /\ cfg.convergence_rounds = 3
    /\ Len(rounds) = 3
    /\ ScoreOf(rounds, 1) # ScoreOf(rounds, 2)
    /\ ScoreOf(rounds, 2) # ScoreOf(rounds, 3)

\* C5 (as claimed): independently of the convergence test, whenever after a
\* round the window is full and all its scores, the current round's included,
\* reach quality_threshold, the debate ends with status consensus_reached.
C5_QualityMeansConsensus ==
    [][ (RoundRecorded
         /\ QualityAfter(rounds', Len(rounds'), cfg.convergence_rounds,
                         cfg.quality_threshold))
          => /\ status' = "consensus_reached"
             /\ pc' = "after_loop" ]_vars

\* C6: run_debate returns max_rounds_reached if and only if max_rounds rounds
\* were run and after none of them the convergence condition or the consensus
\* condition held; total_rounds is then max_rounds.
C6_MaxRoundsIff ==
    outcome = "returned" =>
      LET rs == result.rounds
          n  == cfg.convergence_rounds
          exhausted ==
            /\ Len(rs) = cfg.max_rounds
            /\ \A k \in 1..Len(rs) :
                 /\ ~ConvergedAfter(rs, k, n)
                 /\ ~QualityAfter(rs, k, n, cfg.quality_threshold)
      IN  /\ (result.status = "max_rounds_reached") <=> exhausted
          /\ result.status = "max_rounds_reached"
               => result.total_rounds = cfg.max_rounds

\* A call that ran out of its three rounds although the window was full
C6_Witness ==
    /\ outcome = "returned"
    /\ result.status = "max_rounds_reached"
    /\ result.total_rounds = 3
    /\ cfg.convergence_rounds = 2

\* C7: after the round loop, whatever the terminal status, exactly one vote is
\* taken on the current position; a revision is requested only right after a
\* failed vote, replaces the current position and is followed at once by one
\* re-vote on the revised text; nothing is voted or revised after a passing
\* vote; the number of votes is 1 + re_evaluations.
C7_VoteReviseProtocol ==
    /\ [](/\ pc \in {"initial", "loop", "review", "defend", "moat", "after_loop"}
               => votes = 0 /\ re_evaluations = 0
          /\ pc \in {"voted", "final"}
               => /\ votes = 1 + re_evaluations
                  /\ status \in TerminalStatus
                  /\ voting_result = vote(ProponentTexts[current_position],
                                          cfg.pass_threshold)
          /\ pc = "revise" => votes = re_evaluations /\ ~voting_result.passed
          /\ outcome = "returned" => votes = 1 + result.re_evaluations)
    /\ [][ (pc = "after_loop" /\ pc' # pc)
             => /\ votes' = 1
                /\ current_position' = current_position
                /\ pc' = "voted" ]_vars
    /\ [][ re_evaluations' = re_evaluations + 1
             => pc = "voted" /\ ~voting_result.passed /\ pc' = "revise" ]_vars
    /\ [][ (pc = "revise" /\ pc' \notin {"revise", "idle"})
             => /\ votes' = votes + 1
                /\ pc' = "voted"
                /\ voting_result' = vote(ProponentTexts[current_position'],
                                         cfg.pass_threshold) ]_vars
    /\ [][ (pc \in {"voted", "final"} /\ voting_result.passed)
             => /\ votes' = votes
                /\ re_evaluations' = re_evaluations
                /\ current_position' = current_position
                /\ pc' \in {"voted", "final", "idle"} ]_vars

\* A call returned after two failed votes and a passing third one taken on a
\* revision that differs from the last defense
C7_Witness ==
    /\ outcome = "returned"
    /\ votes = 3
    /\ result.re_evaluations = 2
    /\ result.voting_result.passed
    /\ current_position # rounds[Len(rounds)].proponent_response

\* C8 (as claimed): the number of revise-and-re-vote iterations of a call
\* never exceeds the voting engine's max_retries.
C8_RetriesWithinMaxRetries ==
    re_evaluations <= cfg.max_retries

\* C9: when the first vote and every re-vote fail, the call goes on to the
\* final position and returns a result with a failed vote and re_evaluations
\* at the retry cap; every returned result with a failed vote has
\* re_evaluations at the cap, and every result below the cap has a passed
\* vote.
C9_FailedVoteIsNormalOutcome ==
    /\ [](outcome = "returned" =>
            /\ ~result.voting_result.passed => result.re_evaluations = RetryCap
            /\ result.re_evaluations < RetryCap => result.voting_result.passed
            /\ result.voting_result = voting_result
            /\ result.re_evaluations <= RetryCap)
    /\ [][ (pc = "voted" /\ ~voting_result.passed
            /\ re_evaluations = RetryCap /\ pc' # pc)
             => pc' = "final" /\ outcome' = "none" ]_vars
    /\ [][ (pc = "final" /\ outcome' = "returned")
             => /\ result'.voting_result = voting_result
                /\ result'.re_evaluations = re_evaluations ]_vars

\* A call returned with a failed vote after using up the retries
C9_Witness ==
    /\ outcome = "returned"
    /\ ~result.voting_result.passed
    /\ result.re_evaluations = RetryCap
    /\ votes = RetryCap + 1

\* C13: if the request for the initial position raises, the call ends there
\* by raising: no DebateResult, no round recorded, the reviewer never asked
\* (no critique, no defense), no moat report scored, no vote taken; and a
\* call that has raised does nothing more (no retry).
C13_InitialFailureIsFatal ==
    /\ [][ (pc = "initial" /\ outcome' = "raised")
             => /\ pc' = "idle"
                /\ result' = NoResult
                /\ rounds' = <<>>
                /\ round_num' = 0
                /\ review' = "none"
                /\ defense' = "none"
                /\ votes' = 0
                /\ voting_result' = NoVote ]_vars
    /\ [](outcome = "raised" => (pc = "idle" /\ result = NoResult))
    /\ [][ outcome = "raised" => (pc' = "initial" /\ outcome' = "none") ]_vars

\* A call that raised before any position existed
C13_Witness ==
    /\ outcome = "raised"
    /\ pc = "idle"
    /\ current_position = "none"
    /\ status = "in_progress"
    /\ rounds = <<>>
    /\ votes = 0

\* C14 (as claimed): two calls on one engine share nothing: whether they run
\* one after the other or interleaved, a returned result holds the rounds of
\* its own call numbered 1..total_rounds, as many as the call ran, its status
\* is the one its own call arrived at and its re-evaluation counter is its
\* own.
C14_CallsShareNothing ==
    outcome = "returned" =>
      /\ result.total_rounds = round_num
      /\ Len(result.rounds) = result.total_rounds
      /\ \A i \in 1..Len(result.rounds) : result.rounds[i].round_number = i
      /\ result.status \in TerminalStatus
      /\ result.status = "converged"
           => check_convergence(recent_scores, cfg.convergence_rounds)
      /\ result.status = "max_rounds_reached" => round_num = cfg.max_rounds
      /\ result.re_evaluations = re_evaluations

\* C27: a round goes critique, defense, moat verification, then scoring,
\* recording and the replacement of the position by the defense, in that
\* order: the critique is asked for the position current at that moment,
\* which no step changes before the round is recorded; the round recorded
\* holds the critique and the defense of this round and the score of these
\* two and of the moat report; the next round begins only afterwards, so
\* that the critique of round 1 is on the initial position and the critique
\* of round k+1 on the defense of round k.
C27_RoundStepOrder ==
    [][ /\ pc = "initial" /\ pc' # "initial" /\ outcome' # "raised" =>
             pc' = "loop" /\ rounds' = <<>> /\ current_position' \in ProponentIds
        /\ pc = "loop" /\ pc' # "loop" =>
             \/ pc' = "after_loop" /\ UNCHANGED <<rounds, current_position>>
             \/ /\ pc' = "review"
                /\ round_num' = Len(rounds) + 1
                /\ UNCHANGED <<rounds, current_position>>
                /\ round_num > 0 =>
                     current_position = rounds[round_num].proponent_response
        /\ pc = "review" /\ pc' # "review" /\ outcome' # "raised" =>
             /\ pc' = "defend"
             /\ review' \in ReviewerIds
             /\ UNCHANGED <<rounds, round_num, current_position>>
        /\ pc = "defend" /\ pc' # "defend" /\ outcome' # "raised" =>
             /\ pc' = "moat"
             /\ defense' \in ProponentIds
             /\ UNCHANGED <<rounds, round_num, current_position, review>>
        /\ pc = "moat" /\ pc' # "moat" /\ outcome' # "raised" =>
             /\ pc' \in {"loop", "after_loop"}
             /\ Len(rounds') = Len(rounds) + 1
             /\ SubSeq(rounds', 1, Len(rounds)) = rounds
             /\ LET r == rounds'[Len(rounds')]
                IN  /\ r.round_number = round_num
                    /\ r.reviewer_response = review
                    /\ r.proponent_response = defense
                    /\ r.round_score = score_round(ProponentTexts[defense],
                                                   ReviewerTexts[review],
                                                   r.citation_report)
             /\ current_position' = defense
             /\ round_num' = round_num
      ]_vars

\* The second round is under way on the defense of the first, which is not
\* the text the second defense will be
C27_Witness ==
    /\ pc = "moat"
    /\ round_num = 2
    /\ Len(rounds) = 1
    /\ current_position = rounds[1].proponent_response
    /\ defense # current_position
    /\ review # rounds[1].reviewer_response

\* C32: a run_debate call in flight makes at most max_rounds rounds and at
\* most the retry cap of re-evaluations, and, every awaited call returning
\* or raising, it eventually ends: it returns a DebateResult or raises.
C32_RunDebateFinishes ==
    /\ [](round_num <= cfg.max_rounds /\ re_evaluations <= RetryCap)
    /\ (pc # "idle") ~> (pc = "idle" /\ outcome \in {"returned", "raised"})

\* A call that went through every round and every re-evaluation and returned
C32_Witness ==
    /\ pc = "idle"
    /\ outcome = "returned"
    /\ cfg.max_rounds = 2
    /\ result.total_rounds = 2
    /\ result.re_evaluations = RetryCap
    /\ ~result.voting_result.passed

\* C35: over any sequence of run_debate calls made one after the other, every
\* DebateResult returned has the status converged, consensus_reached or
\* max_rounds_reached, never not_started or in_progress; the status deadlock
\* is never set.
C35_ReturnedStatusIsSettled ==
    /\ status # "deadlock"
    /\ result # NoResult =>
         result.status \in {"converged", "consensus_reached",
                            "max_rounds_reached"}

\* A result returned after the round loop ran out with the status still
\* in_progress
C35_Witness ==
    /\ outcome = "returned"
    /\ result.status = "max_rounds_reached"
    /\ result.total_rounds = cfg.max_rounds
    /\ result.voting_result.passed

\* The scores of the last min(k, n) of the k recorded rounds, oldest first
LastScores(rs, n) ==
    LET k == Len(rs)
        m == IF k < n THEN k ELSE n
    IN  [ i \in 1..m |-> ScoreOf(rs, k - m + i) ]

\* C36: the round loop never stops early before the sliding window is full:
\* after k rounds the window holds the scores of the last
\* min(k, convergence_rounds) rounds; a run that ends converged or
\* consensus_reached has total_rounds >= convergence_rounds; and when
\* max_rounds < convergence_rounds the status is always max_rounds_reached
\* with total_rounds = max_rounds.
C36_NoStopBeforeWindowFull ==
    /\ pc \notin {"idle", "initial"} =>
         recent_scores = LastScores(rounds, cfg.convergence_rounds)
    /\ status \in {"converged", "consensus_reached"} =>
         Len(rounds) >= cfg.convergence_rounds
    /\ outcome = "returned" =>
         /\ result.status \in {"converged", "consensus_reached"} =>
              result.total_rounds >= cfg.convergence_rounds
         /\ cfg.max_rounds < cfg.convergence_rounds =>
              /\ result.status = "max_rounds_reached"
              /\ result.total_rounds = cfg.max_rounds

\* A call returned after two rounds with a window of three never filled
C36_Witness ==
    /\ outcome = "returned"
    /\ pc = "idle"
    /\ cfg.max_rounds = 2
    /\ cfg.convergence_rounds = 3
    /\ Len(recent_scores) = 2
    /\ result.status = "max_rounds_reached"
    /\ result.total_rounds = 2

\* C38: in every DebateResult returned, final_score is the weighted average
\* of the returned voting_result, which is the last vote taken, the one on
\* the position voted on last; it does not depend on the round scores or on
\* the moat reports.
C38_FinalScoreIsLastVote ==
    (pc = "idle" /\ outcome = "returned") =>
      /\ result.final_score = result.voting_result.weighted_average
      /\ result.voting_result = voting_result
      /\ result.voting_result
           = vote(ProponentTexts[current_position], cfg.pass_threshold)

\* A result whose final score is the vote on a revision and differs from the
\* total score of the last round
C38_Witness ==
    /\ pc = "idle"
    /\ outcome = "returned"
    /\ result.re_evaluations >= 1
    /\ result.voting_result.passed
    /\ result.final_score # ScoreOf(result.rounds, Len(result.rounds))

----------------------------------------------------------------------------
(* Properties of the consensus generator *)

\* C10: the verdict is REJECTED whenever the supplied VotingResult has
\* passed = false, for every debate status and every final score.
C10_FailedVoteRejected ==
    (consensus # NoConsensus /\ cons_vote # NoVote /\ ~cons_vote.passed)
      => consensus.verdict = "REJECTED"

\* A consensus generated from a debate that reached consensus with a full
\* score and from a failed vote
C10_Witness ==
    /\ consensus # NoConsensus
    /\ cons_debate.status = "consensus_reached"
    /\ cons_debate.final_score = 10000
    /\ cons_vote # NoVote
    /\ ~cons_vote.passed
    /\ consensus.verdict = "REJECTED"

\* C11: for every debate status, final score and vote, the verdict follows
\* the precedence: failed vote -> REJECTED; else consensus_reached ->
\* VALIDATED if the score is at least 85, PARTIALLY VALIDATED below; else
\* converged -> PARTIALLY VALIDATED if the score is at least 75, NEEDS
\* REVISION below; else deadlock -> INCONCLUSIVE; any other status ->
\* PARTIALLY VALIDATED.
C11_VerdictPrecedence ==
    consensus # NoConsensus =>
      LET failed == cons_vote # NoVote /\ ~cons_vote.passed
          st == cons_debate.status
          score == cons_debate.final_score
          v == consensus.verdict
      IN  /\ failed => v = "REJECTED"
          /\ (~failed /\ st = "consensus_reached" /\ score >= 8500)
               => v = "VALIDATED"
          /\ (~failed /\ st = "consensus_reached" /\ score < 8500)
               => v = "PARTIALLY VALIDATED"
          /\ (~failed /\ st = "converged" /\ score >= 7500)
               => v = "PARTIALLY VALIDATED"
          /\ (~failed /\ st = "converged" /\ score < 7500)
               => v = "NEEDS REVISION"
          /\ (~failed /\ st = "deadlock") => v = "INCONCLUSIVE"
          /\ (~failed /\ st \in {"not_started", "in_progress",
                                 "max_rounds_reached"})
               => v = "PARTIALLY VALIDATED"

\* A converged debate scoring between the two bars (75 <= 84.99 < 85) with a
\* passed vote is only partially validated
C11_Witness ==
    /\ consensus # NoConsensus
    /\ cons_debate.status = "converged"
    /\ cons_debate.final_score = 8499
    /\ cons_vote # NoVote
    /\ cons_vote.passed
    /\ consensus.verdict = "PARTIALLY VALIDATED"

\* C12: with a vote supplied, the confidence is the average of the debate's
\* final score and the vote's weighted average, minus 5 points per
\* re-evaluation, floored at 0 (without a vote the final score takes the
\* place of the average); it is never negative, and a larger re-evaluation
\* count with the same scores never gives a larger confidence.  Confidences
\* are in units of 1/200 point: 5 points = 1000.
C12_ConfidenceFormula ==
    consensus # NoConsensus =>
      LET re == cons_debate.re_evaluations
          twice_avg == IF cons_vote # NoVote
                       THEN cons_debate.final_score + cons_vote.weighted_average
                       ELSE cons_debate.final_score + cons_debate.final_score
      IN  /\ twice_avg - 1000 * re >= 0
               => consensus.confidence = twice_avg - 1000 * re
          /\ twice_avg - 1000 * re < 0 => consensus.confidence = 0
          /\ consensus.confidence >= 0
          /\ \A more \in re..RetryCap :
               consensus_confidence([cons_debate EXCEPT !.re_evaluations = more],
                                    cons_vote) <= consensus.confidence

\* A consensus whose penalty exceeds the average (both scores 0, two
\* re-evaluations): the floor applies
C12_Witness ==
    /\ consensus # NoConsensus
    /\ cons_vote # NoVote
    /\ cons_debate.final_score = 0
    /\ cons_vote.weighted_average = 0
    /\ cons_debate.re_evaluations = 2
    /\ consensus.confidence = 0

----------------------------------------------------------------------------
(* Properties of the web validator *)

\* The request of strategy s failed: an exception (network error, timeout)
\* or a status other than 200.  The 403 answer to the direct URL check is
\* the restricted response, which _validate_url tells apart (see C23).
TransientFailure(s) ==
    \/ val_net[s] \in {"exception", "other_status"}
    \/ s = "doi" /\ val_net[s] = "forbidden_403"

\* the k-th strategy validate called reported verified
CallVerified(k) ==
    strategy_result(val_run.calls[k], val_net).status = "verified"

ClaimedRank(s) ==
    CASE s = "url"              -> 1
      [] s = "doi"              -> 2
      [] s = "semantic_scholar" -> 3
      [] s = "crossref"         -> 3
      [] s = "arxiv"            -> 4

\* C22 (as claimed): the strategies are called in the order direct URL check,
\* DOI resolution, metadata search, preprint search; the first one that
\* reports verified is the last one called and its result is returned.
C22_CascadeOrder ==
    val_run # NoRun /\ val_run.outcome = "returned" =>
      /\ \A j, k \in 1..Len(val_run.calls) :
           j < k => ClaimedRank(val_run.calls[j]) <= ClaimedRank(val_run.calls[k])
      /\ \A k \in 1..Len(val_run.calls) :
           CallVerified(k) =>
             /\ k = Len(val_run.calls)
             /\ val_run.result = strategy_result(val_run.calls[k], val_net)

\* C23 (as claimed): when the direct URL check meets a restricted response
\* and no strategy reports verified, validate returns partial-match with a
\* confidence above 0 and below that of a verified direct URL or DOI.
C23_RestrictedIsPartialMatch ==
    ( /\ val_run # NoRun
      /\ val_run.outcome = "returned"
      /\ val_citation.url
      /\ val_net["url"] = "forbidden_403"
      /\ \A k \in 1..Len(val_run.calls) : ~CallVerified(k) )
    => /\ val_run.result.status = "partial_match"
       /\ val_run.result.confidence > 0
       /\ val_run.result.confidence < validate_url("ok_200").confidence
       /\ val_run.result.confidence < validate_doi("ok_200").confidence

\* C24: batch_validate starts one lookup per input citation, all of them
\* before any completes; it returns only when every lookup has completed;
\* and whatever the order of completion, the list returned has the length of
\* the input and its i-th entry is the result for the i-th citation.
C24_BatchKeepsInputOrder ==
    /\ batch_pc # "idle" => Len(batch_tasks) = Len(batch_citations)
    /\ batch_pc = "gathering" =>
         /\ batch_results = NoResults
         /\ \A i \in 1..Len(batch_tasks) :
              batch_tasks[i] = Pending <=>
                ~(\E k \in 1..Len(batch_completed) : batch_completed[k] = i)
    /\ batch_pc = "returned" =>
         /\ \A i \in 1..Len(batch_citations) :
              \E k \in 1..Len(batch_completed) : batch_completed[k] = i
         /\ Len(batch_results) = Len(batch_citations)
         /\ \A i \in 1..Len(batch_citations) :
              batch_results[i] = lookup_result(batch_citations[i])

\* A batch returned whose lookups completed last to first and whose first
\* and last results differ
C24_Witness ==
    /\ batch_pc = "returned"
    /\ Len(batch_citations) >= 2
    /\ \A k \in 1..Len(batch_completed) :
         batch_completed[k] = Len(batch_citations) + 1 - k
    /\ batch_results[1] # batch_results[Len(batch_results)]

----------------------------------------------------------------------------
(* Properties of the citation extractor *)

\* the spans of two citations share a character
Overlap(m, n) ==
    m.position[1] < n.position[2] /\ n.position[1] < m.position[2]

\* C25: the list extract_all returns is sorted by start offset and the spans
\* of its citations are pairwise disjoint (and each is one of the matches).
C25_SortedAndDisjoint ==
    ex_citations # NoCitations =>
      LET cs == ex_citations.list
      IN  /\ \A i \in 1..Len(cs) : \E k \in 1..Len(ex_matches) :
                 cs[i] = ex_matches[k]
          /\ \A i, j \in 1..Len(cs) :
               i < j => /\ cs[i].position[1] <= cs[j].position[1]
                        /\ ~Overlap(cs[i], cs[j])

\* Three matches, each overlapping the next, of which the middle one gave
\* way: two disjoint citations are returned
C25_Witness ==
    /\ ex_citations # NoCitations
    /\ Len(ex_matches) = 3
    /\ \E a, b, c \in 1..3 :
         /\ Overlap(ex_matches[a], ex_matches[b])
         /\ Overlap(ex_matches[b], ex_matches[c])
         /\ ~Overlap(ex_matches[a], ex_matches[c])
    /\ Len(ex_citations.list) = 2

\* the match is among the citations returned
Survives(m) ==
    \E i \in 1..Len(ex_citations.list) : ex_citations.list[i] = m

\* C26 (as claimed): of two overlapping matches of different priority the
\* lower one never survives, and a match that overlaps no match of the same
\* or a higher priority survives, wherever the two start, whether one
\* contains the other, and whatever the scan order was.
C26_HigherPrioritySurvives ==
    ex_citations # NoCitations =>
      \A a \in 1..Len(ex_matches) :
        LET m == ex_matches[a]
        IN  /\ (\E b \in 1..Len(ex_matches) :
                  /\ Overlap(m, ex_matches[b])
                  /\ priority(ex_matches[b]) > priority(m)) => ~Survives(m)
            /\ (\A b \in 1..Len(ex_matches) :
                  b # a /\ Overlap(m, ex_matches[b]) =>
                    priority(ex_matches[b]) < priority(m)) => Survives(m)

----------------------------------------------------------------------------
(* Properties of the scoring system and of the votes *)

\* C28: whatever the texts and the moat report, each of the five sub-scores
\* of score_round lies between 0 and 1 (0..100 in percent), and each of the
\* five criterion scores of a vote lies between 0 and 100.
C28_ScoresWithinRange ==
    /\ scored # NoScore =>
         /\ DOMAIN scored = CRITERIA
         /\ \A c \in CRITERIA : scored[c] \in 0..100
    /\ criterion_votes # NoVotes =>
         /\ DOMAIN criterion_votes = CRITERIA
         /\ \A c \in CRITERIA : criterion_votes[c].score \in 0..100

\* A round whose logic score is held at 0 (every fallacy named, no logic
\* word) and whose evidence and methodology scores are held at 1
C28_Witness ==
    /\ scored # NoScore
    /\ FallacyIndicators \subseteq score_args.reviewer_response.tokens
    /\ EvidenceMarkers \subseteq score_args.proponent_response.tokens
    /\ MethodMarkers \subseteq score_args.proponent_response.tokens
    /\ score_args.citation_report # NoReport
    /\ score_args.citation_report.total_citations > 0
    /\ scored.logic = 0
    /\ scored.evidence = 100
    /\ scored.methodology = 100

\* the sum of the weights of a weight table, in percent
WeightSum(w) ==
    w.accuracy + w.evidence + w.logic + w.methodology + w.clarity

\* C29: the weights are 25% accuracy, 25% evidence, 20% logic, 15%
\* methodology and 15% clarity, in RoundScore as in the voting engine; they
\* sum to 1; total_score is 100 times the weighted sum of the sub-scores
\* (here percents times percents: hundredths of a point) and lies in 0..100.
C29_WeightsAndTotal ==
    /\ WEIGHTS = [ accuracy |-> 25, evidence |-> 25, logic |-> 20,
                   methodology |-> 15, clarity |-> 15 ]
    /\ CRITERIA_WEIGHTS = WEIGHTS
    /\ WeightSum(WEIGHTS) = 100
    /\ WeightSum(CRITERIA_WEIGHTS) = 100
    /\ scored # NoScore =>
         /\ total_score(scored) = 25 * scored.accuracy + 25 * scored.evidence
                                  + 20 * scored.logic + 15 * scored.methodology
                                  + 15 * scored.clarity
         /\ total_score(scored) \in 0..10000

\* A round with unequal sub-scores, so that the weights tell in the total
C29_Witness ==
    /\ scored # NoScore
    /\ scored.accuracy # scored.logic
    /\ scored.logic # scored.clarity
    /\ scored.evidence = 100
    /\ total_score(scored) > 0
    /\ total_score(scored) < 10000

\* C30: every criterion gets one vote whose status is pass when its score is
\* at least the pass threshold, fail when it is below 0.7 times the
\* threshold, and abstain in between.
C30_VoteStatus ==
    criterion_votes # NoVotes =>
      \A c \in CRITERIA :
        LET v == criterion_votes[c]
            t == vote_args.pass_threshold       \* hundredths of a point
        IN  /\ v.criterion = c
            /\ v.score = analyze_criterion(c, vote_args.position)
            /\ v.status \in VoteStatus
            /\ v.status = "pass" <=> v.score * 100 >= t
            /\ v.status = "fail" <=> v.score * 1000 < 7 * t
            /\ v.status = "abstain" <=>
                 (v.score * 100 < t /\ v.score * 1000 >= 7 * t)

\* A vote with a criterion passed, one abstained on and one failed, and a
\* vote whose score is exactly 0.7 times the threshold (70 of 100)
C30_Witness ==
    /\ criterion_votes # NoVotes
    /\ \E a, b, c \in CRITERIA :
         /\ criterion_votes[a].status = "pass"
         /\ criterion_votes[b].status = "abstain"
         /\ criterion_votes[c].status = "fail"
         /\ \/ criterion_votes[a].score * 100 = vote_args.pass_threshold
            \/ criterion_votes[b].score * 1000 = 7 * vote_args.pass_threshold

\* C31: a vote returns scores for exactly the five criteria, those of its
\* five criterion votes; weighted_average is their sum under the fixed
\* weights 25/25/20/15/15 and lies in 0..100 (hundredths of a point here);
\* passed is true exactly when weighted_average >= the pass threshold.
C31_VoteResult ==
    voted # NoVote =>
      /\ DOMAIN voted.criterion_scores = CRITERIA
      /\ \A c \in CRITERIA :
           voted.criterion_scores[c] = criterion_votes[c].score
      /\ voted.weighted_average =
             25 * voted.criterion_scores["accuracy"]
           + 25 * voted.criterion_scores["evidence"]
           + 20 * voted.criterion_scores["logic"]
           + 15 * voted.criterion_scores["methodology"]
           + 15 * voted.criterion_scores["clarity"]
      /\ voted.weighted_average \in 0..10000
      /\ voted.passed <=> voted.weighted_average >= vote_args.pass_threshold

\* A vote whose weighted average is exactly the threshold, with unequal
\* criterion scores: it passes
C31_Witness ==
    /\ voted # NoVote
    /\ voted.weighted_average = vote_args.pass_threshold
    /\ voted.criterion_scores["accuracy"] # voted.criterion_scores["logic"]
    /\ voted.passed

----------------------------------------------------------------------------
(* Properties of a debate run twice on scripted agents *)

\* The moat report of the last recorded round of a run
LastReport(run) ==
    run.debate_result.rounds[Len(run.debate_result.rounds)].citation_report

\* C33 (as claimed): of two runs on the same question, settings and canned
\* agent responses, one with one of the two citations fabricated (under strict
\* mode the moat report has one KEEP or MODIFY and one DELETE) and one with
\* both citations verifying, the Consensus of the run with the fabricated
\* citation has a strictly lower confidence.
C33_FabricatedLowersConfidence ==
    consensus_pair # NoPair =>
      LET report == LastReport(consensus_pair.fabricated)
      IN  ( /\ report.total_citations = 2
            /\ report.deleted_count = 1
            /\ report.verified_count + report.modified_count = 1 )
          => consensus_pair.fabricated.confidence
               < consensus_pair.verified.confidence

----------------------------------------------------------------------------
(* Properties of the queries a validation reports *)

\* C34 (as claimed): the result validate returns lists in
\* search_queries_used, in the order they were tried, one entry for every
\* strategy attempted during the call, those that failed before a later one
\* verified included.
C34_QueriesListEveryAttempt ==
    (val_run # NoRun /\ val_run.outcome = "returned") =>
        val_run.search_queries_used = val_run.calls

----------------------------------------------------------------------------
(* Properties of the verdict on a debate's own result *)

\* The weighted averages a vote can return: those of the positions put to the
\* vote and of the Proponent's answers
VoteAverages ==
    { vote(p, 7500).weighted_average :
        p \in VotedPositions \cup { ProponentTexts[i] : i \in ProponentIds } }

\* C39: with the default pass threshold of 75, the Consensus generated from a
\* DebateResult run_debate returned and from its own voting_result has the
\* verdict REJECTED when the final vote failed and PARTIALLY VALIDATED
\* otherwise; a vote's weighted average never reaches 85, so VALIDATED,
\* NEEDS REVISION and INCONCLUSIVE do not occur.
C39_VerdictOfOwnResult ==
    /\ \A a \in VoteAverages : a < 8500
    /\ (pc = "idle" /\ outcome = "returned" /\ cfg.pass_threshold = 7500) =>
         LET verdict == determine_verdict(result, result.voting_result)
         IN  /\ result.final_score < 8500
             /\ verdict = IF result.voting_result.passed
                          THEN "PARTIALLY VALIDATED" ELSE "REJECTED"
             /\ verdict \notin {"VALIDATED", "NEEDS REVISION", "INCONCLUSIVE"}

\* A converged debate whose final vote failed with less than 75: rejected
C39_Witness ==
    /\ pc = "idle"
    /\ outcome = "returned"
    /\ result.status = "converged"
    /\ ~result.voting_result.passed
    /\ result.final_score < 7500
    /\ determine_verdict(result, result.voting_result) = "REJECTED"

----------------------------------------------------------------------------
(* Properties of the revision request *)

\* The results of the votes in which no criterion scores below the pass
\* threshold
VotesWithoutFailedCriterion ==
    { vote(x[1], x[2]) :
        x \in { y \in (VotedPositions
                       \cup { ProponentTexts[i] : i \in ProponentIds })
                      \X VotePassThresholds :
                  failed_criteria(vote(y[1], y[2]), y[2]) = {} } }

\* C40: whenever a revision is requested, the preceding vote having failed,
\* the list of failed criteria named in the revision prompt (the criteria
\* scoring below the pass threshold) is not empty: a vote whose five
\* criterion scores all reach the pass threshold always passes.
C40_RevisionNamesFailedCriteria ==
    /\ \A vr \in VotesWithoutFailedCriterion : vr.passed
    /\ pc = "revise" =>
         /\ ~voting_result.passed
         /\ failed_criteria(voting_result, cfg.pass_threshold) # {}

\* The third revision requested, the failed vote having named all five
\* criteria, while there are votes without a failed criterion
C40_Witness ==
    /\ pc = "revise"
    /\ re_evaluations = RetryCap
    /\ ~voting_result.passed
    /\ failed_criteria(voting_result, cfg.pass_threshold) = CRITERIA
    /\ VotesWithoutFailedCriterion # {}
====
